---- MODULE Spec2Model ----
(***************************************************************************)
(* A model of the Shopify store insights analyzer: the /api/analyze        *)
(* endpoint (routes/api.py), the scrape orchestrator and its sub-steps     *)
(* (services/shopify_scraper.py), the FAQ / social / contact extractors    *)
(* (services/content_extractor.py) and the response formatter              *)
(* (services/data_analyzer.py).                                            *)
(*                                                                         *)
(* Conventions.                                                            *)
(*  - A Python str is a sequence of one-character strings.                 *)
(*  - An Optional value is a sequence of length 0 (None) or 1 (the value). *)
(*  - An HTTP attempt's outcome is its status code, or ConnErr when        *)
(*    session.get raised.                                                  *)
(*  - The remote site is the environment: every fetch outcome and every    *)
(*    page content is chosen with \E from a bounded set.                   *)
(***************************************************************************)
EXTENDS Integers, Sequences, FiniteSets, TLC

VARIABLES
    pc,        \* position of the request in analyze_shopify_store / scrape_store
    body,      \* what request.get_json() returned for the request
    insights,  \* the BrandInsights object being built (<<>> before construction)
    reqs,      \* HTTP requests sent so far, per step of the scrape
    error,     \* message of the exception that escaped scrape_store (<<>>: none)
    response,  \* the endpoint's answer (<<>> before it answers)
    input,     \* component specifications: the site content built so far
    output     \* component specifications: what the extractor returned

vars == <<pc, body, insights, reqs, error, response, input, output>>

None == <<>>
Some(v) == <<v>>
IsNone(o) == o = <<>>
Get(o) == o[1]

Min(a, b) == IF a < b THEN a ELSE b

\* Python slice s[:n]
Take(s, n) == IF Len(s) <= n THEN s ELSE SubSeq(s, 1, n)

(***************************************************************************)
(* Python str operations, on sequences of characters.                      *)
(***************************************************************************)
LowerLetters ==
    <<"a", "b", "c", "d", "e", "f", "g", "h", "i", "j", "k", "l", "m",
      "n", "o", "p", "q", "r", "s", "t", "u", "v", "w", "x", "y", "z">>
UpperLetters ==
    <<"A", "B", "C", "D", "E", "F", "G", "H", "I", "J", "K", "L", "M",
      "N", "O", "P", "Q", "R", "S", "T", "U", "V", "W", "X", "Y", "Z">>
LowerCase == {LowerLetters[i] : i \in 1..Len(LowerLetters)}
UpperCase == {UpperLetters[i] : i \in 1..Len(UpperLetters)}
Digits == {"0", "1", "2", "3", "4", "5", "6", "7", "8", "9"}
\* \w of the re module, restricted to the characters the model uses
WordChars == LowerCase \cup UpperCase \cup Digits \cup {"_"}
\* \s
Whitespace == {" ", "\n"}
\* the punctuation clean_text keeps (besides the double quote)
KeptPunct == {".", ",", "?", "!", "-", ":", ";", "(", ")", "[", "]", "'", "/", "@", "#", "$", "%", "&", "*", "+", "=", "\""}
\* characters clean_text removes ("|" is not in its allow-list)
DroppedChars == {"|", "~", "<", ">"}

EndsWith(s, suf) ==
    /\ Len(s) >= Len(suf)
    /\ SubSeq(s, Len(s) - Len(suf) + 1, Len(s)) = suf

StartsWith(s, pre) ==
    /\ Len(s) >= Len(pre)
    /\ SubSeq(s, 1, Len(pre)) = pre

\* str.find, 1-based; 0 when sub does not occur in s
FindSub(s, sub) ==
    LET hits == {i \in 1..(Len(s) - Len(sub) + 1) : SubSeq(s, i, i + Len(sub) - 1) = sub}
    IN IF hits = {} THEN 0 ELSE CHOOSE i \in hits : \A j \in hits : i <= j

\* sub in s
Contains(s, sub) == FindSub(s, sub) # 0

\* s.split(sep)[0]
SplitFirst(s, sep) ==
    LET i == FindSub(s, sep) IN IF i = 0 THEN s ELSE SubSeq(s, 1, i - 1)

RECURSIVE LStrip(_)
LStrip(s) == IF s # <<>> /\ Head(s) \in Whitespace THEN LStrip(Tail(s)) ELSE s

RECURSIVE RStrip(_)
RStrip(s) ==
    IF s # <<>> /\ s[Len(s)] \in Whitespace THEN RStrip(SubSeq(s, 1, Len(s) - 1)) ELSE s

\* str.strip()
Strip(s) == LStrip(RStrip(s))

RECURSIVE CollapseRuns(_)
\* every run of whitespace replaced by one space
CollapseRuns(s) ==
    IF s = <<>> THEN <<>>
    ELSE IF Head(s) \in Whitespace
         THEN <<" ">> \o CollapseRuns(LStrip(s))
         ELSE <<Head(s)>> \o CollapseRuns(Tail(s))

\* ' '.join(text.split())
JoinSplit(s) == CollapseRuns(Strip(s))

RECURSIVE WordRun(_, _)
\* end index of the maximal run of [a-zA-Z0-9#] that starts at index i (i-1: empty run)
WordRun(s, i) ==
    IF i <= Len(s) /\ s[i] \in ((WordChars \ {"_"}) \cup {"#"}) THEN WordRun(s, i + 1) ELSE i - 1

RECURSIVE RemoveEntities(_)
\* re.sub(r'&[a-zA-Z0-9#]+;', '', text): leftmost matches, left to right
RemoveEntities(s) ==
    IF s = <<>> THEN <<>>
    ELSE IF Head(s) = "&"
         THEN LET e == WordRun(s, 2)
              IN IF e >= 2 /\ e + 1 <= Len(s) /\ s[e + 1] = ";"
                 THEN RemoveEntities(SubSeq(s, e + 2, Len(s)))
                 ELSE <<"&">> \o RemoveEntities(Tail(s))
         ELSE <<Head(s)>> \o RemoveEntities(Tail(s))

\* re.sub(r'[^\w\s...]', '', text)
RemoveDisallowed(s) ==
    SelectSeq(s, LAMBDA c : c \in WordChars \cup Whitespace \cup KeptPunct)

\* utils.helpers.clean_text
clean_text(s) ==
    IF s = <<>> THEN <<>>
    ELSE Strip(RemoveDisallowed(RemoveEntities(JoinSplit(s))))

LetterIndex(c, letters) == CHOOSE i \in 1..Len(letters) : letters[i] = c

\* str.lower()
LowerChar(c) == IF c \in UpperCase THEN LowerLetters[LetterIndex(c, UpperLetters)] ELSE c

Lower(s) == [i \in 1..Len(s) |-> LowerChar(s[i])]

UpperChar(c) == IF c \in LowerCase THEN UpperLetters[LetterIndex(c, LowerLetters)] ELSE c

\* str.capitalize(): the first character upper-cased, the rest lower-cased
Capitalize(s) ==
    IF s = <<>> THEN <<>> ELSE <<UpperChar(s[1])>> \o Lower(Tail(s))

RECURSIVE RemoveAll(_, _)
\* str.replace(sub, '')
RemoveAll(s, sub) ==
    LET i == FindSub(s, sub)
    IN IF i = 0 THEN s
       ELSE SubSeq(s, 1, i - 1) \o RemoveAll(SubSeq(s, i + Len(sub), Len(s)), sub)

(***************************************************************************)
(* HTTP: the shared request helper and the access verification.            *)
(***************************************************************************)
\* session.get raised (connection refused, timeout, ...)
ConnErr == 0

\* a mutant of max_retries: one retry more
max_retries_raised == 3 + 1
\* ShopifyScraper.max_retries
max_retries == 3

\* the status codes the environment answers with
Statuses == {200, 403, 404, 429, 500}
Outcomes == Statuses \cup {ConnErr}

RECURSIVE make_request(_, _)
\* ShopifyScraper._make_request(url, retries): rs holds the outcome of each attempt
\* to come. ok: a response was returned; sent: requests sent; waits: the sleeps.
make_request(rs, retries) ==
    LET r == Head(rs)
        again == make_request(Tail(rs), retries + 1)
    IN IF r = ConnErr
       THEN IF retries < max_retries
            THEN [ok |-> again.ok, sent |-> again.sent + 1, waits |-> <<1>> \o again.waits]
            ELSE [ok |-> FALSE, sent |-> 1, waits |-> <<>>]
       ELSE IF r = 200
            THEN [ok |-> TRUE, sent |-> 1, waits |-> <<>>]
            ELSE IF r = 429 /\ retries < max_retries
                 THEN [ok |-> again.ok, sent |-> again.sent + 1,
                       waits |-> <<2 ^ retries>> \o again.waits]
                 ELSE [ok |-> FALSE, sent |-> 1, waits |-> <<>>]

\* the status list of _verify_website_access
AccessibleStatuses == {200, 403}

\* a mutant of _verify_website_access: 403 is not accepted
verify_only_200(r) == r = 200

\* ShopifyScraper._verify_website_access: one session.get, no retry
verify_website_access(r) == r # ConnErr /\ r \in AccessibleStatuses

(***************************************************************************)
(* Brand info (ShopifyScraper._extract_brand_info).                        *)
(***************************************************************************)
Placeholder == <<"B", "r", "a", "n", "d", " ", "N", "a", "m", "e", " ", "N", "o", "t", " ",
                 "A", "v", "a", "i", "l", "a", "b", "l", "e">>

suffixes_to_remove ==
    << <<" ", "-", " ", "O", "n", "l", "i", "n", "e", " ", "S", "t", "o", "r", "e">>,
       <<" ", "|", " ", "O", "f", "f", "i", "c", "i", "a", "l", " ", "S", "t", "o", "r", "e">>,
       <<" ", "S", "t", "o", "r", "e">>,
       <<" ", "S", "h", "o", "p">>,
       <<" ", "O", "f", "f", "i", "c", "i", "a", "l", " ", "S", "i", "t", "e">>,
       <<" ", "W", "e", "b", "s", "i", "t", "e">> >>

\* the loop over suffixes_to_remove: the first suffix the title ends with is cut off
StripSuffix(t) ==
    LET hits == {k \in 1..Len(suffixes_to_remove) : EndsWith(t, suffixes_to_remove[k])}
    IN IF hits = {} THEN t
       ELSE LET k == CHOOSE k \in hits : \A j \in hits : k <= j
            IN Strip(SubSeq(t, 1, Len(t) - Len(suffixes_to_remove[k])))

\* Python truthiness of an Optional[str]
Truthy(o) == ~IsNone(o) /\ Get(o) # <<>>

\* methods 1 and 2: a meta tag's content, when it is not blank; else name is kept
FromMeta(tag, name) ==
    IF ~IsNone(tag) /\ Strip(Get(tag)) # <<>> THEN Some(clean_text(Get(tag))) ELSE name

\* method 3: the title tag, its suffix cut off, up to the first separator
FromTitle(title, name) ==
    IF IsNone(title) THEN name
    ELSE LET t == StripSuffix(clean_text(Get(title)))
         IN IF Contains(t, <<" ", "|", " ">>) THEN Some(Strip(SplitFirst(t, <<" ", "|", " ">>)))
            ELSE IF Contains(t, <<" ", "-", " ">>) THEN Some(Strip(SplitFirst(t, <<" ", "-", " ">>)))
            ELSE Some(t)

\* method 4: the first label of the netloc
FromDomain(netloc, name) ==
    LET domain == RemoveAll(Lower(netloc), <<"w", "w", "w", ".">>)
    IN IF Contains(domain, <<".">>) THEN Some(Capitalize(SplitFirst(domain, <<".">>))) ELSE name

\* the brand-name cascade of _extract_brand_info, lines 114-162
ResolveBrandName(doc, netloc) ==
    LET n1 == FromMeta(doc.og, None)
        n2 == IF ~Truthy(n1) THEN FromMeta(doc.app, n1) ELSE n1
        n3 == IF ~Truthy(n2) THEN FromTitle(doc.title, n2) ELSE n2
        n4 == IF ~Truthy(n3) \/ Len(Strip(Get(n3))) < 3 THEN FromDomain(netloc, n3) ELSE n3
    IN IF Truthy(n4) /\ Strip(Get(n4)) # <<>> THEN Get(n4) ELSE Placeholder

\* _extract_brand_info: got is the result of _make_request for the homepage
extract_brand_info(ins, got, doc, netloc) ==
    IF ~got.ok THEN ins
    ELSE [ins EXCEPT !.brand_name = Some(ResolveBrandName(doc, netloc)),
                     !.brand_description =
                         IF IsNone(doc.desc) THEN @ ELSE Some(clean_text(Get(doc.desc)))]

(***************************************************************************)
(* Products: the catalog feed and the hero products.                       *)
(***************************************************************************)
\* the images list built by _parse_product_json, lines 226-231: an image object
\* gives its src, a bare string itself, anything else is skipped
FeedImages(images) ==
    LET kept == SelectSeq(images, LAMBDA im : im.kind \in {"dict", "str"})
    IN [i \in 1..Len(kept) |-> kept[i].src]

\* whether _parse_product_json returns for this entry; it raises (AttributeError on
\* .get) when the entry is no JSON object
Parses(entry) == entry.kind = "dict"

\* a mutant of _parse_product_json: the last variant is used
parse_product_json_last(entry) ==
    [id |-> Some(entry.id),
     price |-> IF entry.variants = <<>> THEN None
               ELSE entry.variants[Len(entry.variants)].price,
     compare_at_price |-> IF entry.variants = <<>> THEN None
                          ELSE entry.variants[Len(entry.variants)].compare_at_price,
     available |-> IF entry.variants = <<>> THEN Some(FALSE)
                   ELSE Some(entry.variants[Len(entry.variants)].available),
     tags |-> Some(entry.tags),
     images |-> Some(FeedImages(entry.images)),
     url |-> entry.id]

\* ShopifyScraper._parse_product_json: the Product of a feed entry; price,
\* compare_at_price and available come from the first variant
parse_product_json(entry) ==
    [id |-> Some(entry.id),
     price |-> IF entry.variants = <<>> THEN None ELSE entry.variants[1].price,
     compare_at_price |-> IF entry.variants = <<>> THEN None ELSE entry.variants[1].compare_at_price,
     available |-> IF entry.variants = <<>> THEN Some(FALSE) ELSE Some(entry.variants[1].available),
     tags |-> Some(entry.tags),
     images |-> Some(FeedImages(entry.images)),
     url |-> entry.id]

RECURSIVE AppendProducts(_, _)
\* the loop of _extract_product_catalog, lines 181-183: each Product is appended as
\* soon as it is parsed; the loop ends at the first entry whose parse raises
AppendProducts(catalog, entries) ==
    IF entries = <<>> THEN catalog
    ELSE IF ~Parses(Head(entries)) THEN catalog
         ELSE AppendProducts(Append(catalog, parse_product_json(Head(entries))), Tail(entries))

\* ShopifyScraper._extract_product_catalog: everything raised inside is caught
\* (lines 186-187). feed.kind: "notjson" (response.json() raises), "array" (.get
\* raises), "nokey" (the default []), "null" (iterating None raises), "list".
extract_product_catalog(ins, got, feed) ==
    IF ~got.ok THEN ins
    ELSE IF feed.kind # "list" THEN ins
         ELSE [ins EXCEPT !.product_catalog = AppendProducts(@, feed.products)]

\* a mutant of _scrape_individual_product: the images are not cut
scrape_individual_product_uncut(link, got) ==
    IF ~got.ok THEN None
    ELSE Some([id |-> None,
               price |-> link.price,
               compare_at_price |-> None,
               available |-> None,
               tags |-> None,
               images |-> Some(link.imgs),
               url |-> link.url])

\* ShopifyScraper._scrape_individual_product: None when the fetch gave no response;
\* images are the matching img tags, cut to 3 (line 282)
scrape_individual_product(link, got) ==
    IF ~got.ok THEN None
    ELSE Some([id |-> None,
               price |-> link.price,
               compare_at_price |-> None,
               available |-> None,
               tags |-> None,
               images |-> Some(Take(link.imgs, 3)),
               url |-> link.url])

\* hero_products may grow while it is shorter than this (line 205)
HeroScrapeLimit == 10
\* a mutant of the slice of line 210: the limit of line 205 is used again
HeroKeepAsLimit == HeroScrapeLimit
\* the slice of line 210
HeroKeep == 6

RECURSIVE HeroLoop(_, _)
\* the loop of _extract_hero_products, lines 201-208, over the anchors left; st is
\* [hero, fetches, sent, raised]. urljoin on a link whose href it cannot parse
\* raises ValueError, which nothing in the sub-step catches.
HeroLoop(links, st) ==
    IF links = <<>> THEN st
    ELSE LET link == Head(links) IN
         IF ~link.product THEN HeroLoop(Tail(links), st)
         ELSE IF link.badurl THEN [st EXCEPT !.raised = TRUE]
         ELSE IF Len(st.hero) < HeroScrapeLimit
              THEN LET got == make_request(link.rs, 0)
                       p == scrape_individual_product(link, got)
                   IN HeroLoop(Tail(links),
                               [st EXCEPT !.hero = IF IsNone(p) THEN @ ELSE Append(@, Get(p)),
                                          !.fetches = @ + 1,
                                          !.sent = @ + got.sent])
              ELSE HeroLoop(Tail(links), st)

\* ShopifyScraper._extract_hero_products: [raised, hero_products, fetches, sent]
extract_hero_products(ins, got, links) ==
    LET st == IF got.ok
              THEN HeroLoop(links, [hero |-> <<>>, fetches |-> 0, sent |-> 0, raised |-> FALSE])
              ELSE [hero |-> <<>>, fetches |-> 0, sent |-> 0, raised |-> FALSE]
    IN [raised |-> st.raised,
        fetches |-> st.fetches,
        sent |-> got.sent + st.sent,
        ins |-> IF got.ok /\ ~st.raised
                THEN [ins EXCEPT !.hero_products = Take(st.hero, HeroKeep)]
                ELSE ins]

(***************************************************************************)
(* FAQs (ContentExtractor.extract_faqs, _parse_faq_page).                  *)
(* A page is what each of the five methods finds in it: page[m] is the     *)
(* list of [question, answer] candidates of method m, already cleaned.     *)
(***************************************************************************)
\* the test each method applies before it appends a candidate
FaqAccepts(m, c) ==
    CASE m \in {1, 2} -> c.question # <<>> /\ c.answer # <<>>
      [] m = 3 -> Contains(c.question, <<"?">>) /\ c.answer # <<>>
      [] m = 4 -> c.question # <<>> /\ c.answer # <<>> /\ Len(c.answer) > 10
      [] m = 5 -> c.question # <<>> /\ c.answer # <<>> /\ Len(c.answer) > 5

MethodFaqs(page, m) == SelectSeq(page[m], LAMBDA c : FaqAccepts(m, c))

RECURSIVE CascadeAll(_, _, _)
\* a mutant of Cascade: every method runs and adds what it finds
CascadeAll(page, m, faqs) ==
    IF m > 5 THEN faqs ELSE CascadeAll(page, m + 1, faqs \o MethodFaqs(page, m))

RECURSIVE Cascade(_, _, _)
\* lines 86-178: method m runs only when the methods before it found nothing
Cascade(page, m, faqs) ==
    IF m > 5 THEN faqs
    ELSE Cascade(page, m + 1, IF faqs = <<>> THEN MethodFaqs(page, m) ELSE faqs)

\* a mutant of line 188: the question is compared as it is
QuestionAsIs(q) == q

\* line 188: re.sub(r'\s+', ' ', faq.question.lower().strip())
NormalizedQuestion(q) == CollapseRuns(Strip(Lower(q)))

RECURSIVE Deduplicate(_, _, _)
\* lines 183-191: the first FAQ of every normalized question is kept
Deduplicate(faqs, seen, unique) ==
    IF faqs = <<>> THEN unique
    ELSE LET n == NormalizedQuestion(Head(faqs).question)
         IN IF n \in seen
            THEN Deduplicate(Tail(faqs), seen, unique)
            ELSE Deduplicate(Tail(faqs), seen \cup {n}, Append(unique, Head(faqs)))

\* ContentExtractor._parse_faq_page
parse_faq_page(page) == Deduplicate(Cascade(page, 1, <<>>), {}, <<>>)

\* the slice of line 67
FaqLimit == 10

RECURSIVE FaqPaths(_, _, _)
\* the loop of extract_faqs over faq_paths, lines 37-52: st is [faqs, asked]; a
\* path answers with an outcome and, on 200, a page; the loop ends at the first
\* page that gave FAQs
FaqPaths(paths, k, st) ==
    IF k > Len(paths) THEN st
    ELSE LET found == IF paths[k].outcome = 200 THEN parse_faq_page(paths[k].page) ELSE <<>>
             next == [faqs |-> st.faqs \o found, asked |-> Append(st.asked, k)]
         IN IF next.faqs # <<>> THEN next ELSE FaqPaths(paths, k + 1, next)

\* ContentExtractor.extract_faqs: [faqs, asked, home]; asked lists the candidate
\* paths requested, home tells whether the main page was requested
extract_faqs(site) ==
    LET st == FaqPaths(site.paths, 1, [faqs |-> <<>>, asked |-> <<>>])
        main == IF st.faqs = <<>> /\ site.home.outcome = 200
                THEN parse_faq_page(site.home.page) ELSE st.faqs
    IN [faqs |-> Take(main, FaqLimit), asked |-> st.asked, home |-> st.faqs = <<>>]

(***************************************************************************)
(* Social handles (ContentExtractor.extract_social_handles).               *)
(* An href is a sequence of tokens: "https://", "www.", a host, "/", "?",  *)
(* "#", "@" and path segments. A substring test of the code is a test on   *)
(* tokens; the host "wix.com" stands for a host that contains "x.com".     *)
(***************************************************************************)
\* social_platforms, in the order the dict is iterated
Platforms ==
    <<"facebook", "instagram", "twitter", "tiktok", "youtube", "linkedin", "pinterest", "snapchat">>

PlatformDomains(p) ==
    CASE p = "facebook" -> {"facebook.com", "fb.com"}
      [] p = "instagram" -> {"instagram.com"}
      [] p = "twitter" -> {"twitter.com", "x.com"}
      [] p = "tiktok" -> {"tiktok.com"}
      [] p = "youtube" -> {"youtube.com", "youtu.be"}
      [] p = "linkedin" -> {"linkedin.com"}
      [] p = "pinterest" -> {"pinterest.com"}
      [] p = "snapchat" -> {"snapchat.com"}

\* domain in token (as a substring)
TokenHas(tok, domain) == tok = domain \/ (tok = "wix.com" /\ domain = "x.com")

\* any(domain in href for domain in domains)
MatchesPlatform(href, p) ==
    \E i \in 1..Len(href) : \E d \in PlatformDomains(p) : TokenHas(href[i], d)

\* str(href_raw).lower()
LowerHref(href) == [i \in 1..Len(href) |-> IF href[i] = "Acme" THEN "acme" ELSE href[i]]

\* re.sub(r'^https?://(www\.)?', '', url)
CleanUrl(url) ==
    IF url # <<>> /\ url[1] = "https://"
    THEN IF Len(url) >= 2 /\ url[2] = "www." THEN SubSeq(url, 3, Len(url)) ELSE Tail(url)
    ELSE url

RECURSIVE Segment(_, _)
\* the tokens matched by ([^/?]+) from index i on
Segment(u, i) ==
    IF i > Len(u) \/ u[i] \in {"/", "?"} THEN <<>> ELSE <<u[i]>> \o Segment(u, i + 1)

\* re.search(domain + prefix + '([^/?]+)', u): group 1 of the leftmost match, or None
SearchHandle(u, domains, prefix) ==
    LET hits == {i \in 1..Len(u) :
                    /\ \E d \in domains : TokenHas(u[i], d)
                    /\ i + Len(prefix) <= Len(u)
                    /\ SubSeq(u, i + 1, i + Len(prefix)) = prefix
                    /\ Segment(u, i + Len(prefix) + 1) # <<>>}
    IN IF hits = {} THEN None
       ELSE LET i == CHOOSE i \in hits : \A j \in hits : i <= j
            IN Some(Segment(u, i + Len(prefix) + 1))

\* the handle unless it is one of the path segments that are no handle
Unless(h, junk) == IF ~IsNone(h) /\ Get(h) \notin junk THEN h ELSE None

\* a mutant of _extract_handle_from_url: the first path segment after the
\* domain is the handle, on every platform
extract_handle_any_platform(url, platform) ==
    SearchHandle(CleanUrl(url), PlatformDomains(platform), <<"/">>)

\* ContentExtractor._extract_handle_from_url
extract_handle_from_url(url, platform) ==
    LET u == CleanUrl(url)
        common == {<<"www">>, <<"web">>, <<"home">>}
    IN CASE platform = "instagram" ->
              Unless(SearchHandle(u, {"instagram.com"}, <<"/">>),
                     common \cup {<<"explore">>, <<"reels">>})
         [] platform = "facebook" ->
              Unless(SearchHandle(u, {"facebook.com"}, <<"/">>),
                     common \cup {<<"pages">>, <<"groups">>})
         [] platform = "twitter" ->
              Unless(SearchHandle(u, {"twitter.com", "x.com"}, <<"/">>),
                     common \cup {<<"explore">>, <<"notifications">>})
         [] platform = "tiktok" ->
              Unless(SearchHandle(u, {"tiktok.com"}, <<"/", "@">>),
                     common \cup {<<"explore">>})
         [] platform = "youtube" ->
              IF Contains(u, <<"/", "channel", "/">>)
              THEN LET m == SearchHandle(u, {"youtube.com"}, <<"/", "channel", "/">>)
                   IN IF IsNone(m) THEN None ELSE Some(<<"Channel: ">> \o Get(m) \o <<"...">>)
              ELSE IF Contains(u, <<"/", "@">>)
                   THEN SearchHandle(u, {"youtube.com"}, <<"/", "@">>)
                   ELSE IF Contains(u, <<"/", "c", "/">>)
                        THEN SearchHandle(u, {"youtube.com"}, <<"/", "c", "/">>)
                        ELSE None
         [] OTHER -> None

\* a mutant of line 241: every handle is recorded, None too
AnyHandle(handle) == TRUE

\* line 241: the handle is recorded only when it is one
ValidHandle(handle) ==
    ~IsNone(handle) /\ Get(handle) # <<>> /\ Get(handle) \notin {<<"www">>, <<"web">>, <<"home">>}

\* a mutant of line 236: platforms found before are recorded again
SocialVisitAgain(st, href, p) ==
    IF MatchesPlatform(href, p)
    THEN LET handle == extract_handle_from_url(href, p)
         IN IF ~IsNone(handle) /\ Get(handle) # <<>>
                /\ Get(handle) \notin {<<"www">>, <<"web">>, <<"home">>}
            THEN [handles |-> Append(st.handles,
                                     [platform |-> p, url |-> href, handle |-> handle]),
                  found |-> st.found \cup {p},
                  done |-> TRUE]
            ELSE st
    ELSE st

\* what one pass of the inner loop (lines 234-249) does for platform p on href:
\* st is [handles, found, done]; done: the break of line 249 was taken
SocialVisit(st, href, p) ==
    IF p \notin st.found /\ MatchesPlatform(href, p)
    THEN LET handle == extract_handle_from_url(href, p)
         IN IF ValidHandle(handle)
            THEN [handles |-> Append(st.handles,
                                     [platform |-> p, url |-> href, handle |-> handle]),
                  found |-> st.found \cup {p},
                  done |-> TRUE]
            ELSE st
    ELSE st

\* line 231: fragment and relative links are skipped
SkippedHref(href) == href # <<>> /\ href[1] \in {"#", "/"}

RECURSIVE SocialPlatforms(_, _, _)
\* the inner loop over social_platforms, from platform k on
SocialPlatforms(st, href, k) ==
    IF k > Len(Platforms) \/ st.done THEN st
    ELSE SocialPlatforms(SocialVisit(st, href, Platforms[k]), href, k + 1)

\* one pass of the outer loop (lines 226-249) for one anchor
SocialLink(st, href_raw) ==
    LET href == LowerHref(href_raw)
    IN IF SkippedHref(href) THEN st
       ELSE [SocialPlatforms([st EXCEPT !.done = FALSE], href, 1) EXCEPT !.done = FALSE]

RECURSIVE SocialLinks(_, _)
SocialLinks(st, links) ==
    IF links = <<>> THEN st ELSE SocialLinks(SocialLink(st, Head(links)), Tail(links))

\* ContentExtractor.extract_social_handles: the list of SocialHandle
extract_social_handles(outcome, links) ==
    IF outcome # 200 THEN <<>>
    ELSE SocialLinks([handles |-> <<>>, found |-> {}, done |-> FALSE], links).handles

(***************************************************************************)
(* Policies (ShopifyScraper._extract_policies).                            *)
(***************************************************************************)
\* policy_urls
privacy_paths == <<"/pages/privacy-policy", "/privacy-policy", "/pages/privacy">>
return_paths == <<"/pages/return-policy", "/return-policy", "/pages/returns", "/pages/refund-policy">>

\* the slice of lines 302 and 313
PolicyContentLimit == 2000

RECURSIVE PolicyLoopNoBreak(_, _, _, _)
\* a mutant of PolicyLoop: the loop does not end at the first page, the last
\* page fetched is the one recorded
PolicyLoopNoBreak(paths, fetches, k, sent) ==
    IF k > Len(paths) THEN [url |-> None, content |-> None, sent |-> sent, asked |-> k - 1]
    ELSE LET got == make_request(fetches[k].rs, 0)
             rest == PolicyLoopNoBreak(paths, fetches, k + 1, sent + got.sent)
         IN IF got.ok /\ IsNone(rest.url)
            THEN [rest EXCEPT !.url = Some(paths[k]),
                              !.content = Some(Min(fetches[k].len, PolicyContentLimit))]
            ELSE rest

RECURSIVE PolicyLoop(_, _, _, _)
\* one of the two loops of _extract_policies: fetches[k] is [rs, len], the attempts'
\* outcomes for path k and the length of the page's cleaned text. The content is
\* kept as its length.
PolicyLoop(paths, fetches, k, sent) ==
    IF k > Len(paths) THEN [url |-> None, content |-> None, sent |-> sent, asked |-> k - 1]
    ELSE LET got == make_request(fetches[k].rs, 0)
         IN IF got.ok
            THEN [url |-> Some(paths[k]),
                  content |-> Some(Min(fetches[k].len, PolicyContentLimit)),
                  sent |-> sent + got.sent, asked |-> k]
            ELSE PolicyLoop(paths, fetches, k + 1, sent + got.sent)

\* ShopifyScraper._extract_policies
extract_policies(ins, pv, rt) ==
    LET p == PolicyLoop(privacy_paths, pv, 1, 0)
        r == PolicyLoop(return_paths, rt, 1, 0)
    IN [sent |-> p.sent + r.sent,
        ins |-> [ins EXCEPT
                   !.privacy_policy_url = IF IsNone(p.url) THEN @ ELSE p.url,
                   !.privacy_policy_content = IF IsNone(p.url) THEN @ ELSE p.content,
                   !.return_refund_policy_url = IF IsNone(r.url) THEN @ ELSE r.url,
                   !.return_refund_policy_content = IF IsNone(r.url) THEN @ ELSE r.content]]

(***************************************************************************)
(* Contact info (ContentExtractor.extract_contact_info).                   *)
(* A page is the matches of the two regular expressions in its text:       *)
(* emails (strings) and phones ([text, digits]).                           *)
(***************************************************************************)
\* the post-filter of lines 334 and 355
PhoneMinDigits == 10
\* a mutant of the slice of line 365: the limit of the FAQs is used
EmailLimitAsFaqLimit == FaqLimit
\* the slices of lines 365 and 366
EmailLimit == 5
PhoneLimit == 3

PagePhones(page) ==
    LET kept == SelectSeq(page.phones, LAMBDA ph : ph.digits >= PhoneMinDigits)
    IN [i \in 1..Len(kept) |-> kept[i].text]

RECURSIVE ContactPathsFirstFetched(_, _, _)
\* a mutant of ContactPaths: the loop ends at the first page that was served
ContactPathsFirstFetched(pages, k, st) ==
    IF k > Len(pages) THEN st
    ELSE IF pages[k].outcome = 200
         THEN [emails |-> st.emails \o pages[k].emails,
               phones |-> st.phones \o PagePhones(pages[k]),
               asked |-> k]
         ELSE ContactPathsFirstFetched(pages, k + 1, [st EXCEPT !.asked = k])

RECURSIVE ContactPaths(_, _, _)
\* the loop over contact_paths, lines 320-339: st is [emails, phones, asked]
ContactPaths(pages, k, st) ==
    IF k > Len(pages) THEN st
    ELSE LET next == IF pages[k].outcome = 200
                     THEN [emails |-> st.emails \o pages[k].emails,
                           phones |-> st.phones \o PagePhones(pages[k]),
                           asked |-> k]
                     ELSE [st EXCEPT !.asked = k]
         IN IF pages[k].outcome = 200 /\ (next.emails # <<>> \/ next.phones # <<>>)
            THEN next
            ELSE ContactPaths(pages, k + 1, next)

SeqRange(s) == {s[i] : i \in 1..Len(s)}

\* the lists a slice [:n] of list(set(...)) can be: set order is arbitrary
Slices(S, n) ==
    LET k == Min(n, Cardinality(S))
    IN {f \in [1..k -> S] : \A i, j \in 1..k : i # j => f[i] # f[j]}

\* the requests of extract_contact_info: the contact paths 1..asked, in that
\* order, and the main page when the loop left both lists empty (line 342)
contact_requests(site) ==
    LET st == ContactPaths(site.paths, 1, [emails |-> <<>>, phones |-> <<>>, asked |-> 0])
    IN [asked |-> st.asked, home |-> st.emails = <<>> /\ st.phones = <<>>]

\* ContentExtractor.extract_contact_info: the values it can return
extract_contact_info(site) ==
    LET st == ContactPaths(site.paths, 1, [emails |-> <<>>, phones |-> <<>>, asked |-> 0])
        main == IF st.emails = <<>> /\ st.phones = <<>> /\ site.home.outcome = 200
                THEN [emails |-> site.home.emails, phones |-> PagePhones(site.home)]
                ELSE [emails |-> st.emails, phones |-> st.phones]
        emails == {Lower(e) : e \in {x \in SeqRange(main.emails) : Contains(x, <<"@">>)}}
        phones == SeqRange(main.phones)
    IN IF emails = {} /\ phones = {} THEN {None}
       ELSE {Some([emails |-> e, phone_numbers |-> q, address |-> None]) :
                e \in Slices(emails, EmailLimit), q \in Slices(phones, PhoneLimit)}

(***************************************************************************)
(* Important links (ShopifyScraper._extract_important_links).              *)
(* An anchor is [words, url, badurl]: the keywords that occur in its href  *)
(* or text, its URL, and whether urljoin raises on its href.               *)
(***************************************************************************)
\* important_keywords, in the order the dict is iterated
Categories == <<"order_tracking", "contact_us", "blog", "about", "shipping", "faq">>

CategoryKeywords(c) ==
    CASE c = "order_tracking" -> {"track", "order", "tracking"}
      [] c = "contact_us" -> {"contact", "support"}
      [] c = "blog" -> {"blog", "news", "article"}
      [] c = "about" -> {"about"}
      [] c = "shipping" -> {"shipping"}
      [] c = "faq" -> {"faq", "help"}

\* the first category one of whose keywords the anchor has; 0 when none
Classify(link) ==
    LET hits == {k \in 1..Len(Categories) : CategoryKeywords(Categories[k]) \cap link.words # {}}
    IN IF hits = {} THEN 0 ELSE CHOOSE k \in hits : \A j \in hits : k <= j

RECURSIVE LinksLoop(_, _)
\* the loop of lines 352-361: st is [map, raised]
LinksLoop(links, st) ==
    IF links = <<>> THEN st
    ELSE LET k == Classify(Head(links))
         IN IF k = 0 THEN LinksLoop(Tail(links), st)
            ELSE IF Head(links).badurl THEN [st EXCEPT !.raised = TRUE]
            ELSE LinksLoop(Tail(links),
                           [st EXCEPT !.map[Categories[k]] = Some(Head(links).url)])

\* ShopifyScraper._extract_important_links: the map is written as the loop goes
extract_important_links(ins, got, links) ==
    LET st == IF got.ok
              THEN LinksLoop(links, [map |-> ins.important_links, raised |-> FALSE])
              ELSE [map |-> ins.important_links, raised |-> FALSE]
    IN [raised |-> st.raised, ins |-> [ins EXCEPT !.important_links = st.map]]

(***************************************************************************)
(* The response formatter (DataAnalyzer.format_insights_for_response).     *)
(***************************************************************************)
\* the slices of lines 149 and 158
CatalogImagesShown == 3
HeroImagesShown == 2

\* p.images[:n] if p.images else []
ShownImages(p, n) ==
    IF IsNone(p.images) \/ Get(p.images) = <<>> THEN <<>> ELSE Take(Get(p.images), n)

format_insights_for_response(ins) ==
    [brand_name |-> ins.brand_name,
     brand_description |-> ins.brand_description,
     product_catalog |->
         [i \in 1..Len(ins.product_catalog) |->
             [id |-> ins.product_catalog[i].id,
              price |-> ins.product_catalog[i].price,
              images |-> ShownImages(ins.product_catalog[i], CatalogImagesShown)]],
     hero_products |->
         [i \in 1..Len(ins.hero_products) |->
             [price |-> ins.hero_products[i].price,
              images |-> ShownImages(ins.hero_products[i], HeroImagesShown),
              url |-> ins.hero_products[i].url]],
     privacy_policy_url |-> ins.privacy_policy_url,
     return_refund_policy_url |-> ins.return_refund_policy_url,
     faqs |-> ins.faqs,
     social_handles |-> ins.social_handles,
     contact_info |-> ins.contact_info,
     important_links |-> ins.important_links]

(***************************************************************************)
(* URL validation (utils/validators.py).                                   *)
(***************************************************************************)
\* is_likely_shopify_store: pj is the answer of /products.json ([outcome, json]),
\* home the answer of the main page ([outcome, indicator])
is_likely_shopify_store(pj, home) ==
    IF pj.outcome = ConnErr THEN FALSE
    ELSE IF pj.outcome = 200 THEN pj.json = "has_products"
    ELSE IF home.outcome = 200 THEN home.indicator
    ELSE home.outcome = 403

\* validate_shopify_url, for a URL that passed the request schema: head is the
\* outcome of the HEAD request
validate_shopify_url(netloc, head, pj, home) ==
    IF netloc = <<>> THEN FALSE
    ELSE IF head # ConnErr /\ head \notin {200, 301, 302, 403} THEN FALSE
    ELSE is_likely_shopify_store(pj, home)

(***************************************************************************)
(* The scrape and the endpoint: state and inputs.                          *)
(***************************************************************************)
\* the sub-steps of scrape_store, in the order of lines 45-66
SubSteps == <<"brand", "catalog", "hero", "policies", "faqs", "social", "contact", "links">>
Steps == {"verify"} \cup SeqRange(SubSteps)

\* BrandInsights(website_url=...), after __post_init__
NewInsights ==
    [brand_name |-> None,
     brand_description |-> None,
     product_catalog |-> <<>>,
     hero_products |-> <<>>,
     privacy_policy_url |-> None,
     privacy_policy_content |-> None,
     return_refund_policy_url |-> None,
     return_refund_policy_content |-> None,
     faqs |-> <<>>,
     social_handles |-> <<>>,
     contact_info |-> None,
     important_links |-> [c \in SeqRange(Categories) |-> None]]

\* the message of the exception of line 42
NotAccessibleMsg ==
    <<"W", "e", "b", "s", "i", "t", "e", " ", "n", "o", "t", " ", "a", "c", "c", "e", "s", "s",
      "i", "b", "l", "e", " ", "o", "r", " ", "n", "o", "t", " ", "f", "o", "u", "n", "d">>

\* str(e) of the ValueError urljoin raises on an href such as "http://[x"
UrlJoinMsg ==
    <<"I", "n", "v", "a", "l", "i", "d", " ", "I", "P", "v", "6", " ", "U", "R", "L">>

\* str(e) of the ValueError urljoin raises on an href such as
\* "http://[not found]/products/a" (the host in brackets is no IP address)
BracketedHostMsg ==
    <<"'", "n", "o", "t", " ", "f", "o", "u", "n", "d", "'", " ", "d", "o", "e", "s", " ",
      "n", "o", "t", " ", "a", "p", "p", "e", "a", "r", " ", "t", "o", " ", "b", "e", " ",
      "a", "n", " ", "I", "P", "v", "4", " ", "o", "r", " ", "I", "P", "v", "6", " ", "a",
      "d", "d", "r", "e", "s", "s">>

\* the messages of the exceptions a sub-step lets escape
UrlJoinMsgs == {UrlJoinMsg, BracketedHostMsg}

\* every attempt of a fetch answers r
Always(r) == [i \in 1..(max_retries + 1) |-> r]
\* rate-limited once, then served
RateLimitedOnce == <<429>> \o [i \in 1..max_retries |-> 200]

\* no page: the text of a page that holds nothing the extractors look for
EmptyFaqPage == [m \in 1..5 |-> <<>>]

\* what request.get_json() can return: [json, empty, url]; url is the website_url
\* field of a JSON object, [shape, netloc], when it has one
Bodies ==
    {[json |-> "null", empty |-> TRUE, url |-> None],
     [json |-> "object", empty |-> TRUE, url |-> None],
     [json |-> "array", empty |-> TRUE, url |-> None],
     [json |-> "array", empty |-> FALSE, url |-> None],
     [json |-> "object", empty |-> FALSE, url |-> None],
     [json |-> "object", empty |-> FALSE, url |-> Some([shape |-> "blank", netloc |-> <<>>])],
     [json |-> "object", empty |-> FALSE,
      url |-> Some([shape |-> "noscheme", netloc |-> <<"a", "b", ".", "i", "o">>])],
     [json |-> "object", empty |-> FALSE, url |-> Some([shape |-> "http", netloc |-> <<>>])],
     [json |-> "object", empty |-> FALSE,
      url |-> Some([shape |-> "http", netloc |-> <<"a", "b", ".", "i", "o">>])]}

\* the fetches the environment answers a sub-step's _make_request with
NetPool == {Always(200), Always(403), RateLimitedOnce}
\* the fetches the main page is answered with in the last sub-step
LinksNetPool ==
    {Always(200), Always(ConnErr),
     <<429, ConnErr, 429>> \o Always(ConnErr),
     <<ConnErr, 429, 429>> \o Always(200)}

\* main pages, as _extract_brand_info reads them: [og, app, title, desc]
HomeDocs ==
    {[og |-> Some(<<"A", "c", "m", "e">>), app |-> None, title |-> None, desc |-> None],
     [og |-> None, app |-> None, title |-> Some(<<"~">>), desc |-> Some(<<"a", " ", " ", "b">>)],
     [og |-> None, app |-> None, title |-> None, desc |-> None]}

\* the variants of a feed entry differ: only the first is available and has no
\* compare_at_price
Variant(n) ==
    [price |-> Some(n), compare_at_price |-> IF n > 10 THEN Some(n + 1) ELSE None,
     available |-> n = 10]
Image(kind, n) == [kind |-> kind, src |-> n]
\* a feed entry that is a JSON object with n images and v variants
Entry(id, v, n) ==
    [kind |-> "dict", id |-> id,
     variants |-> [i \in 1..v |-> Variant(10 * i)],
     tags |-> <<>>,
     images |-> [i \in 1..n |-> Image(IF i % 2 = 1 THEN "dict" ELSE "str", i)]]
\* a feed entry that is no JSON object
BadEntry(id) == [kind |-> "str", id |-> id, variants |-> <<>>, tags |-> <<>>, images |-> <<>>]

Feed(kind, entries) == [kind |-> kind, products |-> entries]

MainFeeds ==
    {Feed("notjson", <<>>), Feed("null", <<>>), Feed("list", <<>>),
     Feed("list", <<Entry(1, 2, 2)>>),
     Feed("list", <<Entry(1, 1, 5), BadEntry(2), Entry(3, 0, 0)>>)}

\* anchors of the main page, as _extract_hero_products reads them
OtherLink(u) ==
    [product |-> FALSE, badurl |-> FALSE, rs |-> Always(404), imgs |-> <<>>, price |-> None, url |-> u]
ProductLink(u, rs, n) ==
    [product |-> TRUE, badurl |-> FALSE, rs |-> rs, imgs |-> [i \in 1..n |-> i],
     price |-> Some(u), url |-> u]
BadProductLink(u) ==
    [product |-> TRUE, badurl |-> TRUE, rs |-> Always(404), imgs |-> <<>>, price |-> None, url |-> u]

MainHeroLinks ==
    {<<>>,
     <<ProductLink(1, Always(200), 4)>>,
     <<OtherLink(1), ProductLink(2, Always(ConnErr), 0), ProductLink(3, Always(200), 1)>>,
     <<ProductLink(1, Always(200), 1), BadProductLink(2)>>}

PolicyFetch(rs, len) == [rs |-> rs, len |-> len]
\* [pv, rt]: the answers to the privacy paths and to the return paths
MainPolicies ==
    {[pv |-> [k \in 1..Len(privacy_paths) |-> PolicyFetch(Always(404), 0)],
      rt |-> [k \in 1..Len(return_paths) |-> PolicyFetch(Always(200), 10)]],
     [pv |-> [k \in 1..Len(privacy_paths) |->
                 PolicyFetch(IF k = 2 THEN Always(200) ELSE Always(404), 2500)],
      rt |-> [k \in 1..Len(return_paths) |-> PolicyFetch(Always(404), 0)]]}

Chars(n) == [i \in 1..n |-> "x"]
Faq(q, a) == [question |-> q, answer |-> a]
\* a page in which method m finds the candidates cands and the others nothing
FaqPage(m, cands) == [k \in 1..5 |-> IF k = m THEN cands ELSE <<>>]
FaqAnswer(outcome, page) == [outcome |-> outcome, page |-> page]
\* faq_paths has five entries (line 33)
NoFaqPaths == [k \in 1..5 |-> FaqAnswer(404, EmptyFaqPage)]

MainFaqSites ==
    {[paths |-> [NoFaqPaths EXCEPT ![2] =
                    FaqAnswer(200, FaqPage(2, <<Faq(<<"a", "?">>, <<"y">>),
                                                Faq(<<"A", "?">>, <<"n">>)>>))],
      home |-> FaqAnswer(200, EmptyFaqPage)],
     [paths |-> [k \in 1..5 |-> FaqAnswer(ConnErr, EmptyFaqPage)],
      home |-> FaqAnswer(403, EmptyFaqPage)]}

MainSocialLinks ==
    {<<>>,
     << <<"https://", "www.", "instagram.com", "/">>,
        <<"https://", "instagram.com", "/", "Acme">>,
        <<"https://", "linkedin.com", "/", "acme">> >>}

ContactPage(outcome, emails, phones) == [outcome |-> outcome, emails |-> emails, phones |-> phones]
\* contact_paths has four entries (line 318)
MainContactSites ==
    {[paths |-> [k \in 1..4 |-> ContactPage(404, <<>>, <<>>)],
      home |-> ContactPage(200, <<>>, <<[text |-> 1, digits |-> 9]>>)],
     [paths |-> [k \in 1..4 |-> ContactPage(IF k = 1 THEN ConnErr ELSE 200,
                                            <<<<"A", "@", "x">>, <<"a", "@", "x">>>>,
                                            <<[text |-> 1, digits |-> 10]>>)],
      home |-> ContactPage(200, <<>>, <<>>)]}

Anchor(words, u, bad) == [words |-> words, url |-> u, badurl |-> bad]
MainAnchors ==
    {<<Anchor({"contact"}, 1, FALSE), Anchor({}, 2, TRUE), Anchor({"support", "help"}, 3, FALSE)>>,
     <<Anchor({"blog"}, 1, FALSE), Anchor({"about"}, 2, TRUE)>>}

(***************************************************************************)
(* The endpoint POST /api/analyze and scrape_store, step by step.          *)
(* pc: "received", "validate_url", "verify", one of SubSteps, "returned"   *)
(* (scrape_store returned the profile), "raised" (an exception escaped     *)
(* scrape_store), "responded". In this specification input holds what the  *)
(* site answered to the sub-step that ran last.                            *)
(***************************************************************************)
ZeroReqs == [s \in Steps |-> 0]

Answer(status, success, data) == Some([status |-> status, success |-> success, data |-> data])

\* if not request_data (line 20)
BodyFalsy(b) == b.json = "null" \/ b.empty

\* WebsiteUrlRequest(**request_data) validates: the field is there, is not blank
\* and starts with http:// or https://
SchemaAccepts(b) == ~IsNone(b.url) /\ Get(b.url).shape = "http"

\* lines 19-35 and the handler of line 84: the status answered at once, None when
\* the request goes on. ** on a body that is no JSON object raises TypeError, which
\* only the outer except catches.
RequestCheck(b) ==
    IF BodyFalsy(b) THEN Some(400)
    ELSE IF b.json # "object" THEN Some(500)
    ELSE IF ~SchemaAccepts(b) THEN Some(400)
    ELSE None

ValidateRequest ==
    /\ pc = "received"
    /\ IF IsNone(RequestCheck(body))
       THEN pc' = "validate_url" /\ UNCHANGED response
       ELSE pc' = "responded" /\ response' = Answer(Get(RequestCheck(body)), FALSE, None)
    /\ UNCHANGED <<body, insights, reqs, error, input, output>>

\* lines 38-42
ValidateUrl ==
    /\ pc = "validate_url"
    /\ \E head \in Outcomes \cup {301}, pjo \in {200, 404, ConnErr},
          pjj \in {"has_products", "no_products", "notjson"},
          ho \in {200, 403, 500}, ind \in BOOLEAN :
          IF validate_shopify_url(Get(body.url).netloc, head,
                                  [outcome |-> pjo, json |-> pjj],
                                  [outcome |-> ho, indicator |-> ind])
          THEN pc' = "verify" /\ UNCHANGED response
          ELSE pc' = "responded" /\ response' = Answer(401, FALSE, None)
    /\ UNCHANGED <<body, insights, reqs, error, input, output>>

\* a mutant of StepDone: the exception is dropped and the scrape goes on
StepDoneGoesOn(step, next, ins, sent, raised, msg, seen) ==
    /\ insights' = Some(ins)
    /\ reqs' = [reqs EXCEPT ![step] = @ + sent]
    /\ input' = Some(seen)
    /\ pc' = next
    /\ UNCHANGED <<body, response, output, error>>

\* the state a sub-step leaves: the profile, the requests it sent, and either the
\* next position or the exception that escapes scrape_store (lines 71-73)
StepDone(step, next, ins, sent, raised, msg, seen) ==
    /\ insights' = Some(ins)
    /\ reqs' = [reqs EXCEPT ![step] = @ + sent]
    /\ input' = Some(seen)
    /\ IF raised
       THEN pc' = "raised" /\ error' = Some(msg)
       ELSE pc' = next /\ UNCHANGED error
    /\ UNCHANGED <<body, response, output>>

\* scrape_store, lines 37-42: the profile is constructed, the site is asked once
Verify ==
    /\ pc = "verify"
    /\ \E r \in Outcomes :
          StepDone("verify", "brand", NewInsights, 1,
                   ~verify_website_access(r), NotAccessibleMsg, [step |-> "verify", outcome |-> r])

\* line 45
BrandInfo ==
    /\ pc = "brand"
    /\ \E rs \in NetPool, doc \in HomeDocs :
          LET got == make_request(rs, 0)
          IN StepDone("brand", "catalog",
                      extract_brand_info(Get(insights), got, doc, Get(body.url).netloc),
                      got.sent, FALSE, <<>>, [step |-> "brand", rs |-> rs, doc |-> doc])

\* line 48
ProductCatalog ==
    /\ pc = "catalog"
    /\ \E rs \in NetPool, feed \in MainFeeds :
          LET got == make_request(rs, 0)
          IN StepDone("catalog", "hero", extract_product_catalog(Get(insights), got, feed),
                      got.sent, FALSE, <<>>, [step |-> "catalog", rs |-> rs, feed |-> feed])

\* line 51
HeroProducts ==
    /\ pc = "hero"
    /\ \E rs \in NetPool, links \in MainHeroLinks, msg \in UrlJoinMsgs :
          LET res == extract_hero_products(Get(insights), make_request(rs, 0), links)
          IN StepDone("hero", "policies", res.ins, res.sent, res.raised, msg,
                      [step |-> "hero", rs |-> rs, links |-> links])

\* line 54
Policies ==
    /\ pc = "policies"
    /\ \E site \in MainPolicies :
          LET res == extract_policies(Get(insights), site.pv, site.rt)
          IN StepDone("policies", "faqs", res.ins, res.sent, FALSE, <<>>,
                      [step |-> "policies", site |-> site])

\* line 57 and _extract_faqs
Faqs ==
    /\ pc = "faqs"
    /\ \E site \in MainFaqSites :
          LET res == extract_faqs(site)
          IN StepDone("faqs", "social", [Get(insights) EXCEPT !.faqs = res.faqs],
                      Len(res.asked) + (IF res.home THEN 1 ELSE 0), FALSE, <<>>,
                      [step |-> "faqs", site |-> site])

\* line 60 and _extract_social_handles
SocialHandles ==
    /\ pc = "social"
    /\ \E o \in {200, ConnErr}, links \in MainSocialLinks :
          StepDone("social", "contact",
                   [Get(insights) EXCEPT !.social_handles = extract_social_handles(o, links)],
                   1, FALSE, <<>>, [step |-> "social", outcome |-> o, links |-> links])

\* line 63 and _extract_contact_info
ContactInfo ==
    /\ pc = "contact"
    /\ \E site \in MainContactSites :
          \E info \in extract_contact_info(site) :
             LET st == ContactPaths(site.paths, 1, [emails |-> <<>>, phones |-> <<>>, asked |-> 0])
             IN StepDone("contact", "links", [Get(insights) EXCEPT !.contact_info = info],
                         st.asked + (IF st.emails = <<>> /\ st.phones = <<>> THEN 1 ELSE 0),
                         FALSE, <<>>, [step |-> "contact", site |-> site])

\* line 66, then the return of line 69
ImportantLinks ==
    /\ pc = "links"
    /\ \E rs \in LinksNetPool, links \in MainAnchors, msg \in UrlJoinMsgs :
          LET got == make_request(rs, 0)
              res == extract_important_links(Get(insights), got, links)
          IN StepDone("links", "returned", res.ins, got.sent, res.raised, msg,
                      [step |-> "links", rs |-> rs, links |-> links])

\* a mutant of the test of line 57: only "not accessible" is looked for
SaysNotAccessibleOnly(msg) ==
    Contains(Lower(msg), <<"n", "o", "t", " ", "a", "c", "c", "e", "s", "s", "i", "b", "l", "e">>)

\* "not accessible" in error_msg.lower() or "not found" in error_msg.lower() (line 57)
SaysNotAccessible(msg) ==
    \/ Contains(Lower(msg), <<"n", "o", "t", " ", "a", "c", "c", "e", "s", "s", "i", "b", "l", "e">>)
    \/ Contains(Lower(msg), <<"n", "o", "t", " ", "f", "o", "u", "n", "d">>)

\* lines 53-82: the answer once scrape_store has returned or raised
ScrapeAnswer(position, ins, err) ==
    IF position = "raised"
    THEN Answer(IF SaysNotAccessible(Get(err)) THEN 401 ELSE 500, FALSE, None)
    ELSE Answer(200, TRUE, Some(format_insights_for_response(Get(ins))))

Respond ==
    /\ pc \in {"returned", "raised"}
    /\ response' = ScrapeAnswer(pc, insights, error)
    /\ pc' = "responded"
    /\ UNCHANGED <<body, insights, reqs, error, input, output>>

Init ==
    /\ pc = "received"
    /\ body \in Bodies
    /\ insights = None
    /\ reqs = ZeroReqs
    /\ error = None
    /\ response = None
    /\ input = None
    /\ output = None

Next ==
    \/ ValidateRequest
    \/ ValidateUrl
    \/ Verify
    \/ BrandInfo
    \/ ProductCatalog
    \/ HeroProducts
    \/ Policies
    \/ Faqs
    \/ SocialHandles
    \/ ContactInfo
    \/ ImportantLinks
    \/ Respond

Spec == Init /\ [][Next]_vars

(***************************************************************************)
(* Claims about the endpoint and the scrape (specification Spec).          *)
(***************************************************************************)
\* the sub-step that ran last
LastStep == IF IsNone(input) THEN "none" ELSE Get(input).step

\* C1: once access verification has succeeded, an exception raised inside an
\* extraction sub-step is caught inside the scrape and scrape_store returns the
\* profile: the only exception that ever escapes scrape_store is the one of a
\* failed access verification.
C1_SubStepExceptionsCaught == pc = "raised" => LastStep = "verify"

\* C2: scrape_store sends exactly one access-verification request; when it raises
\* or answers with a status other than 200 and 403 the scrape fails with the
\* "not accessible" error, no sub-step has sent a request and the profile is as
\* constructed; when it answers 200 or 403 the scrape goes on to the first sub-step.
C2_AccessVerification ==
    /\ reqs["verify"] <= 1
    /\ ~IsNone(insights) => reqs["verify"] = 1
    /\ LastStep = "verify" =>
          IF Get(input).outcome \in {200, 403}
          THEN pc = "brand" /\ error = None
          ELSE /\ pc \in {"raised", "responded"}
               /\ error = Some(NotAccessibleMsg)
               /\ SaysNotAccessible(Get(error))
               /\ reqs = [ZeroReqs EXCEPT !["verify"] = 1]
               /\ insights = Some(NewInsights)

\* C2 witness: the verification request was refused and the scrape has failed
C2_Witness ==
    /\ pc = "raised"
    /\ LastStep = "verify"
    /\ Get(input).outcome = ConnErr
    /\ reqs["verify"] = 1

\* the JSON body is missing or fails the request schema
InvalidBody(b) == BodyFalsy(b) \/ b.json # "object" \/ ~SchemaAccepts(b)

\* C3: the endpoint answers 400 when the body is missing or fails the request
\* schema, 401 when validate_shopify_url rejects the URL or the access verification
\* fails, 500 for any other failure of the scrape and 200 with success = true when
\* scrape_store returned a profile; the scraper is not started before a 400 or a
\* validation 401.
C3_StatusMapping ==
    pc = "responded" =>
        LET r == Get(response)
        IN /\ InvalidBody(body) => r.status = 400 /\ IsNone(insights) /\ reqs = ZeroReqs
           /\ ~InvalidBody(body) /\ IsNone(insights) => r.status = 401 /\ reqs = ZeroReqs
           /\ ~IsNone(error) /\ LastStep = "verify" => r.status = 401
           /\ ~IsNone(error) /\ LastStep # "verify" => r.status = 500
           /\ ~IsNone(insights) /\ IsNone(error) => r.status = 200 /\ r.success

\* the /products.json fetch failed, or its body is no JSON object with a list of
\* products, or an entry cannot be converted to a Product
CatalogFails(seen) ==
    \/ ~make_request(seen.rs, 0).ok
    \/ seen.feed.kind # "list"
    \/ \E k \in 1..Len(seen.feed.products) : ~Parses(seen.feed.products[k])

\* C9: when the /products.json fetch fails or anything raises while the body is
\* parsed or its entries are converted, the catalog sub-step raises nothing, the
\* product catalog is empty afterwards and the scrape goes on to the next sub-step.
C9_FailedCatalogIsEmpty ==
    LastStep = "catalog" /\ CatalogFails(Get(input)) =>
        pc = "hero" /\ Get(insights).product_catalog = <<>>

\* C10: whenever scrape_store returns a profile its brand_name is a non-empty
\* string (the resolved name or the placeholder), never null.
C10_BrandNameNeverNull ==
    pc = "returned" =>
        /\ ~IsNone(Get(insights).brand_name)
        /\ Strip(Get(Get(insights).brand_name)) # <<>>

\* the category an anchor is classified into; "none" when it has no keyword
CategoryOf(link) == IF Classify(link) = 0 THEN "none" ELSE Categories[Classify(link)]

\* C12: after _extract_important_links every category that has an entry holds the
\* URL of the first anchor, in document order, classified into it: a later anchor
\* of the category does not overwrite the entry.
C12_FirstAnchorWins ==
    pc = "returned" /\ make_request(Get(input).rs, 0).ok =>
        \A c \in SeqRange(Categories) :
            ~IsNone(Get(insights).important_links[c]) =>
                \E i \in 1..Len(Get(input).links) :
                    /\ CategoryOf(Get(input).links[i]) = c
                    /\ \A j \in 1..(i - 1) : CategoryOf(Get(input).links[j]) # c
                    /\ Get(insights).important_links[c] = Some(Get(input).links[i].url)

\* C18: every list field of the data model is a list, never null: the lists of the
\* profile are empty at construction, and in every profile scrape_store returns the
\* tags and images of every Product, in the catalog and among the hero products,
\* are lists.
C18_ListFieldsNeverNull ==
    /\ LastStep = "verify" /\ ~IsNone(insights) =>
          /\ Get(insights).product_catalog = <<>>
          /\ Get(insights).hero_products = <<>>
          /\ Get(insights).faqs = <<>>
          /\ Get(insights).social_handles = <<>>
    /\ pc = "returned" =>
          \A products \in {Get(insights).product_catalog, Get(insights).hero_products} :
              \A i \in 1..Len(products) :
                  ~IsNone(products[i].tags) /\ ~IsNone(products[i].images)

\* the sub-steps that call _make_request once
SingleFetchSteps == {"brand", "catalog", "links"}

\* C19 as stated: one call of _make_request sends at most 3 HTTP requests, the
\* first attempt included.
C19_AtMostThreeRequests == \A s \in SingleFetchSteps : reqs[s] <= 3

RECURSIVE LeadingRetryable(_)
\* how many attempts in a row, from the first on, ended in a 429 or an exception
LeadingRetryable(rs) ==
    IF rs # <<>> /\ Head(rs) \in {429, ConnErr} THEN 1 + LeadingRetryable(Tail(rs)) ELSE 0

\* the positions of the endpoint, in the order they are passed
Position(p) ==
    CASE p = "received" -> 0
      [] p = "validate_url" -> 1
      [] p = "verify" -> 2
      [] p \in SeqRange(SubSteps) -> 2 + (CHOOSE k \in 1..Len(SubSteps) : SubSteps[k] = p)
      [] p \in {"returned", "raised"} -> 11
      [] p = "responded" -> 12

\* C19 as amended: one call of _make_request sends at most 4 HTTP requests, the
\* first attempt and at most 3 re-sends, one re-send for each 429 or exception;
\* no sub-step and no scrape is run again: the request only moves forward, and a
\* sub-step's requests are sent while the request is at that sub-step.
C19_AtMostFourRequests ==
    /\ [](\A s \in SingleFetchSteps :
             /\ reqs[s] <= 4
             /\ LastStep = s => reqs[s] = Min(LeadingRetryable(Get(input).rs) + 1, 4))
    /\ [][/\ pc' # pc => Position(pc') > Position(pc)
          /\ \A s \in Steps : reqs'[s] # reqs[s] => pc = s /\ pc' # s]_vars

\* C19 witness: the last sub-step's fetch met 429 answers and exceptions and sent
\* 4 requests
C19_Witness ==
    /\ LastStep = "links"
    /\ 429 \in SeqRange(Get(input).rs)
    /\ LeadingRetryable(Get(input).rs) > 4
    /\ reqs["links"] = 4


(***************************************************************************)
(* Specification SpecProducts: the catalog and the hero-products sub-steps *)
(* on feeds and main pages built entry by entry and anchor by anchor.      *)
(* pc: "build_feed" or "build_links", then "products_done"; input is the   *)
(* list of feed entries or of anchors, output what the sub-step did.       *)
(***************************************************************************)
MaxFeed == 7
MaxHeroLinks == 11
\* anchors that are no product link, or that urljoin rejects, come among the first
MaxMixedLinks == 2

Idle ==
    /\ body = None
    /\ insights = None
    /\ reqs = ZeroReqs
    /\ error = None
    /\ response = None

IdleUnchanged == UNCHANGED <<body, insights, reqs, error, response>>

\* the feed entries that can come next: objects with and without variants, with
\* 0 to 5 images, and an entry that is no object
NextEntries(id) == {Entry(id, 2, id % 6), Entry(id, 0, 5), BadEntry(id)}

\* the anchors that can come next
NextLinks(u) ==
    {ProductLink(u, Always(200), u % 5), ProductLink(u, Always(404), 0)}
        \cup (IF u <= MaxMixedLinks THEN {OtherLink(u), BadProductLink(u)} ELSE {})

InitProducts ==
    /\ pc \in {"build_feed", "build_links"}
    /\ input = <<>>
    /\ output = None
    /\ Idle

AddEntry ==
    /\ pc = "build_feed"
    /\ Len(input) < MaxFeed
    /\ \E e \in NextEntries(Len(input) + 1) : input' = Append(input, e)
    /\ UNCHANGED <<pc, output>>
    /\ IdleUnchanged

AddHeroLink ==
    /\ pc = "build_links"
    /\ Len(input) < MaxHeroLinks
    /\ \E l \in NextLinks(Len(input) + 1) : input' = Append(input, l)
    /\ UNCHANGED <<pc, output>>
    /\ IdleUnchanged

\* _extract_product_catalog on a fresh profile, then the formatter
RunCatalog ==
    /\ pc = "build_feed"
    /\ \E rs \in {Always(200), Always(404)}, kind \in {"list", "notjson"} :
          LET ins == extract_product_catalog(NewInsights, make_request(rs, 0), Feed(kind, input))
          IN output' = Some([step |-> "catalog", rs |-> rs, feed |-> Feed(kind, input),
                             raised |-> FALSE, fetches |-> 0, ins |-> ins,
                             data |-> format_insights_for_response(ins)])
    /\ pc' = "products_done"
    /\ UNCHANGED input
    /\ IdleUnchanged

\* _extract_hero_products on a fresh profile, then the formatter
RunHero ==
    /\ pc = "build_links"
    /\ \E rs \in {Always(200), Always(403)} :
          LET res == extract_hero_products(NewInsights, make_request(rs, 0), input)
          IN output' = Some([step |-> "hero", rs |-> rs, feed |-> Feed("list", <<>>),
                             raised |-> res.raised, fetches |-> res.fetches, ins |-> res.ins,
                             data |-> format_insights_for_response(res.ins)])
    /\ pc' = "products_done"
    /\ UNCHANGED input
    /\ IdleUnchanged

NextProducts == AddEntry \/ AddHeroLink \/ RunCatalog \/ RunHero

SpecProducts == InitProducts /\ [][NextProducts]_vars

\* what a finished run of SpecProducts left
Ran(step) == pc = "products_done" /\ Get(output).step = step

\* the product links whose page was scraped successfully, in document order
ScrapedLinks(links) ==
    SelectSeq(links, LAMBDA l : l.product /\ ~l.badurl /\ make_request(l.rs, 0).ok)

Urls(products) == [i \in 1..Len(products) |-> products[i].url]

\* C7: after the hero-products sub-step hero_products has at most 6 entries, the
\* first successfully scraped product pages in document order of their links; the
\* catalog sub-step puts no cap on product_catalog (one Product per feed entry).
C7_HeroCap ==
    /\ Ran("hero") =>
          /\ Len(Get(output).ins.hero_products) <= 6
          /\ make_request(Get(output).rs, 0).ok /\ ~Get(output).raised =>
                Urls(Get(output).ins.hero_products) = Take(Urls(ScrapedLinks(input)), 6)
    /\ Ran("catalog") /\ ~CatalogFails(Get(output)) =>
          Len(Get(output).ins.product_catalog) = Len(input)

\* C7 witness: more than 6 product pages were scraped, with failed fetches among
\* the links, and 6 hero products were kept
C7_Witness ==
    /\ Ran("hero")
    /\ Len(ScrapedLinks(input)) > 6
    /\ \E i \in 1..6 : input[i].product /\ ~make_request(input[i].rs, 0).ok
    /\ Len(Get(output).ins.hero_products) = 6

ImagesOf(p) == Get(p.images)

\* C8 as stated: in the profile every catalog product carries at most 3 image URLs
\* and every hero product at most 2.
C8_ImagesCutAtExtraction ==
    pc = "products_done" =>
        /\ \A i \in 1..Len(Get(output).ins.product_catalog) :
              Len(ImagesOf(Get(output).ins.product_catalog[i])) <= 3
        /\ \A i \in 1..Len(Get(output).ins.hero_products) :
              Len(ImagesOf(Get(output).ins.hero_products[i])) <= 2

\* C8 as amended: in the profile a hero product carries at most 3 image URLs, the
\* first 3 of its page, and a catalog product carries every image of its feed entry;
\* at most 3 per catalog product and 2 per hero product are left only in the data
\* format_insights_for_response builds from the profile.
C8_ImagesCutWhenFormatted ==
    pc = "products_done" =>
        LET ins == Get(output).ins
            data == Get(output).data
            scraped == ScrapedLinks(input)
        IN /\ \A i \in 1..Len(ins.product_catalog) :
                 /\ Len(ImagesOf(ins.product_catalog[i])) =
                       Cardinality({k \in 1..Len(input[i].images) :
                                       input[i].images[k].kind \in {"dict", "str"}})
                 /\ data.product_catalog[i].images = Take(ImagesOf(ins.product_catalog[i]), 3)
           /\ \A i \in 1..Len(ins.hero_products) :
                 /\ Len(ImagesOf(ins.hero_products[i])) <= 3
                 /\ ImagesOf(ins.hero_products[i]) = Take(scraped[i].imgs, 3)
                 /\ data.hero_products[i].images = Take(ImagesOf(ins.hero_products[i]), 2)

\* C8 witness: a catalog product with 5 images in the profile and 3 in the data
C8_Witness ==
    /\ Ran("catalog")
    /\ \E i \in 1..Len(Get(output).ins.product_catalog) :
          /\ Len(ImagesOf(Get(output).ins.product_catalog[i])) = 5
          /\ Len(Get(output).data.product_catalog[i].images) = 3

\* the feed was fetched, is a JSON object with a list under 'products', and every
\* entry of the list is a JSON object
WellFormedFeed ==
    /\ Ran("catalog")
    /\ make_request(Get(output).rs, 0).ok
    /\ Get(output).feed.kind = "list"
    /\ \A i \in 1..Len(input) : input[i].kind = "dict"

\* C15: for a feed with n entries the catalog sub-step appends exactly n Products in
\* feed order; price, compare_at_price and availability of each are those of the
\* entry's first variant (null, null and false when it has no variants), and its
\* images list has one element per image of the entry.
C15_CatalogFromFirstVariant ==
    WellFormedFeed =>
        LET catalog == Get(output).ins.product_catalog
        IN /\ Len(catalog) = Len(input)
           /\ \A i \in 1..Len(input) :
                 /\ catalog[i].id = Some(input[i].id)
                 /\ Len(Get(catalog[i].images)) = Len(input[i].images)
                 /\ IF input[i].variants = <<>>
                    THEN /\ IsNone(catalog[i].price)
                         /\ IsNone(catalog[i].compare_at_price)
                         /\ catalog[i].available = Some(FALSE)
                    ELSE /\ catalog[i].price = input[i].variants[1].price
                         /\ catalog[i].compare_at_price = input[i].variants[1].compare_at_price
                         /\ catalog[i].available = Some(input[i].variants[1].available)

\* C15 witness: a feed of at least 3 entries, with an entry of 2 variants and 2
\* images and an entry without variants, was converted
C15_Witness ==
    /\ WellFormedFeed
    /\ Len(input) >= 3
    /\ \E i \in 1..Len(input) : Len(input[i].variants) = 2 /\ Len(input[i].images) = 2
    /\ \E i \in 1..Len(input) : input[i].variants = <<>>
    /\ Len(Get(output).ins.product_catalog) = Len(input)


(***************************************************************************)
(* Specification SpecFaq: extract_faqs on FAQ pages built question by      *)
(* question.  input is the list of question texts as they stand in the     *)
(* page; pc: "build_faq", then "faq_done".                                 *)
(***************************************************************************)
MaxFaqs == 12
MaxFaqVariants == 1

DigitChars == <<"0", "1", "2", "3", "4", "5", "6", "7", "8", "9">>
\* the k-th question of a page: "q 01?", "q 02?", ...
FreshQuestion(k) == <<"q", " ", DigitChars[(k \div 10) + 1], DigitChars[(k % 10) + 1], "?">>
\* other spellings of the first question
QuestionVariants == {<<"Q", " ", "0", "1", "?">>, <<" ", "q", " ", " ", "0", "1", "?">>}

FreshCount(qs) == Cardinality({i \in 1..Len(qs) : qs[i] \notin QuestionVariants})

\* the candidates a method reads from the page: question and answer go through
\* clean_text before they are tested (lines 105-106, 119-120, 131-136, 157-158)
FaqCandidates(qs) ==
    [i \in 1..Len(qs) |-> Faq(clean_text(qs[i]), Chars(IF i = 2 THEN 3 ELSE 11))]

\* a site whose k-th candidate path (k = 6: only the main page, k = 0: no page)
\* serves the questions, laid out for method m; the other fetches fail or give
\* pages without FAQs
FaqSite(k, m, qs) ==
    [paths |-> [j \in 1..5 |->
                   IF j = k THEN FaqAnswer(200, FaqPage(m, FaqCandidates(qs)))
                   ELSE FaqAnswer(<<404, ConnErr, 200>>[(j % 3) + 1], EmptyFaqPage)],
     home |-> IF k = 6 THEN FaqAnswer(200, FaqPage(m, FaqCandidates(qs)))
              ELSE FaqAnswer(IF k = 0 THEN ConnErr ELSE 200, EmptyFaqPage)]

InitFaq ==
    /\ pc = "build_faq"
    /\ input = <<>>
    /\ output = None
    /\ Idle

AddQuestion ==
    /\ pc = "build_faq"
    /\ Len(input) < MaxFaqs
    /\ input' = Append(input, FreshQuestion(FreshCount(input) + 1))
    /\ UNCHANGED <<pc, output>>
    /\ IdleUnchanged

AddQuestionVariant ==
    /\ pc = "build_faq"
    /\ Len(input) < MaxFaqs
    /\ Len(input) - FreshCount(input) < MaxFaqVariants
    /\ \E q \in QuestionVariants : input' = Append(input, q)
    /\ UNCHANGED <<pc, output>>
    /\ IdleUnchanged

\* ContentExtractor.extract_faqs
RunFaqs ==
    /\ pc = "build_faq"
    /\ \E k \in {0, 2, 6}, m \in {1, 3, 4} :
          LET res == extract_faqs(FaqSite(k, m, input))
          IN output' = Some([step |-> "faqs", served |-> k, faqs |-> res.faqs,
                             asked |-> res.asked, home |-> res.home])
    /\ pc' = "faq_done"
    /\ UNCHANGED input
    /\ IdleUnchanged

NextFaq == AddQuestion \/ AddQuestionVariant \/ RunFaqs

SpecFaq == InitFaq /\ [][NextFaq]_vars

\* a question lower-cased, its whitespace collapsed
LoweredCollapsed(q) == CollapseRuns(Lower(q))

\* C4: whatever the pages hold and however the fetches of the candidate pages and
\* of the main page end, extract_faqs returns at most 10 FAQs, no two of them with
\* questions that are equal once lower-cased and their whitespace collapsed.
C4_FaqCapAndUnique ==
    pc = "faq_done" =>
        LET faqs == Get(output).faqs
        IN /\ Len(faqs) <= 10
           /\ \A i, j \in 1..Len(faqs) :
                 i # j => LoweredCollapsed(faqs[i].question) # LoweredCollapsed(faqs[j].question)

\* C4 witness: a page with more than 10 different questions, one of them spelled
\* in two ways among the first ten, gave 10 FAQs
C4_Witness ==
    /\ pc = "faq_done"
    /\ FreshCount(input) > 10
    /\ \E i, j \in 1..10 :
          i # j /\ input[i] # input[j]
                /\ LoweredCollapsed(clean_text(input[i])) = LoweredCollapsed(clean_text(input[j]))
    /\ Len(Get(output).faqs) = 10

(***************************************************************************)
(* Specification SpecSocial: extract_social_handles on main pages built    *)
(* anchor by anchor.  input is the list of hrefs in document order; pc:    *)
(* "build_social", then "social_done".                                     *)
(***************************************************************************)
MaxSocialLinks == 3

SocialHrefs ==
    {<<"https://", "instagram.com", "/", "Acme">>,
     <<"https://", "www.", "instagram.com", "/">>,
     <<"https://", "instagram.com", "/", "shop">>,
     <<"https://", "facebook.com", "/", "pages", "/", "acme">>,
     <<"https://", "facebook.com", "/", "sharer", "?", "instagram.com">>,
     <<"/", "pages", "/", "instagram.com">>,
     <<"https://", "youtube.com", "/", "@", "home">>,
     <<"https://", "linkedin.com", "/", "acme">>,
     <<"https://", "pinterest.com", "/", "acme">>,
     <<"https://", "snapchat.com", "/", "add", "/", "acme">>}

InitSocial ==
    /\ pc = "build_social"
    /\ input = <<>>
    /\ output = None
    /\ Idle

AddSocialLink ==
    /\ pc = "build_social"
    /\ Len(input) < MaxSocialLinks
    /\ \E href \in SocialHrefs : input' = Append(input, href)
    /\ UNCHANGED <<pc, output>>
    /\ IdleUnchanged

\* ContentExtractor.extract_social_handles
RunSocial ==
    /\ pc = "build_social"
    /\ \E o \in {200, 404, ConnErr} :
          output' = Some([step |-> "social", outcome |-> o,
                          handles |-> extract_social_handles(o, input)])
    /\ pc' = "social_done"
    /\ UNCHANGED input
    /\ IdleUnchanged

NextSocial == AddSocialLink \/ RunSocial

SpecSocial == InitSocial /\ [][NextSocial]_vars

\* the main page was read and its anchors scanned
Scanned == pc = "social_done" /\ Get(output).outcome = 200

\* the state of the scan before anchor i (after the last one: i = Len(input) + 1)
ScanBefore(i) ==
    SocialLinks([handles |-> <<>>, found |-> {}, done |-> FALSE], SubSeq(input, 1, i - 1))

PlatformSet == {Platforms[k] : k \in 1..Len(Platforms)}

Recorded(handles, p) == {k \in 1..Len(handles) : handles[k].platform = p}

\* C5: whatever the anchors of the main page, extract_social_handles returns no two
\* SocialHandle entries with the same platform.
C5_OnePerPlatform ==
    pc = "social_done" =>
        \A i, j \in 1..Len(Get(output).handles) :
            i # j => Get(output).handles[i].platform # Get(output).handles[j].platform

\* C5 witness: two different anchors gave a handle for one platform and one entry
\* of that platform was returned
C5_Witness ==
    /\ Scanned
    /\ \E i, j \in 1..Len(input) :
          /\ i < j
          /\ LowerHref(input[i]) # LowerHref(input[j])
          /\ ~IsNone(extract_handle_from_url(LowerHref(input[i]), "instagram"))
          /\ ~IsNone(extract_handle_from_url(LowerHref(input[j]), "instagram"))
    /\ Cardinality(Recorded(Get(output).handles, "instagram")) = 1

\* anchor i matches the domain of platform p, p is not recorded yet, the anchor
\* is recorded for no other platform, and no handle can be extracted from it
NoHandleCase(i, p) ==
    /\ ~SkippedHref(LowerHref(input[i]))
    /\ MatchesPlatform(LowerHref(input[i]), p)
    /\ p \notin ScanBefore(i).found
    /\ ScanBefore(i + 1).found \ ScanBefore(i).found \subseteq {p}
    /\ IsNone(extract_handle_from_url(LowerHref(input[i]), p))

\* an anchor of platform p alone, with a handle in it
PlainAnchor(i, p) ==
    /\ \A q \in PlatformSet : MatchesPlatform(LowerHref(input[i]), q) <=> q = p
    /\ ~IsNone(extract_handle_from_url(LowerHref(input[i]), p))
    /\ Get(extract_handle_from_url(LowerHref(input[i]), p)) \notin {<<"www">>, <<"web">>, <<"home">>}

MaxTitleParts == 3

BrandNames == {<<"A", "c", "m", "e">>, <<"A", "b">>}
ShopPart == <<" ", "S", "h", "o", "p">>
OnlineStorePart == <<" ", "-", " ", "O", "n", "l", "i", "n", "e", " ", "S", "t", "o", "r", "e">>
TitleParts ==
    BrandNames \cup {ShopPart, OnlineStorePart, <<" ", "|", " ", "O", "f", "f", "i", "c", "i", "a", "l", " ", "S", "t", "o", "r", "e">>, <<" ", "S", "t", "o", "r", "e">>, <<" ", "-", " ", "B", "l", "o", "g">>, <<"~">>}

RECURSIVE Flatten(_)
\* the text of the title tag: its parts one after the other
Flatten(parts) == IF parts = <<>> THEN <<>> ELSE Head(parts) \o Flatten(Tail(parts))

\* the netloc of the store in this specification
BrandNetloc == <<"w", "w", "w", ".", "a", "b", ".", "i", "o">>

\* the main page with these meta tags and this title
BrandDoc(og, app, parts) ==
    [og |-> og, app |-> app,
     title |-> IF parts = <<>> THEN None ELSE Some(Flatten(parts)),
     desc |-> None]

InitBrand ==
    /\ pc = "build_title"
    /\ input = <<>>
    /\ output = None
    /\ Idle

AddTitlePart ==
    /\ pc = "build_title"
    /\ Len(input) < MaxTitleParts
    /\ \E part \in TitleParts : input' = Append(input, part)
    /\ UNCHANGED <<pc, output>>
    /\ IdleUnchanged

\* ShopifyScraper._extract_brand_info on a fresh profile
RunBrand ==
    /\ pc = "build_title"
    /\ \E og \in {None, Some(<<" ">>), Some(<<"O", "g", " ", "C", "o">>)}, app \in {None, Some(<<"A", "p", "p">>)},
          rs \in {Always(200), Always(403)} :
          output' = Some([step |-> "brand", og |-> og, app |-> app, rs |-> rs,
                          ins |-> extract_brand_info(NewInsights, make_request(rs, 0),
                                                     BrandDoc(og, app, input), BrandNetloc)])
    /\ pc' = "brand_done"
    /\ UNCHANGED input
    /\ IdleUnchanged

NextBrand == AddTitlePart \/ RunBrand

SpecBrand == InitBrand /\ [][NextBrand]_vars

\* the main page was fetched and has neither an og:site_name nor an
\* application-name meta tag
TitleOnly ==
    /\ pc = "brand_done"
    /\ make_request(Get(output).rs, 0).ok
    /\ IsNone(Get(output).og)
    /\ IsNone(Get(output).app)

\* C11: for a main page without og:site_name and application-name whose title is
\* '<Name> Shop - Online Store', the brand name resolved is '<Name>'.
C11_StorefrontSuffixStripped ==
    TitleOnly =>
        \A name \in BrandNames :
            input = <<name, ShopPart, OnlineStorePart>> =>
                Get(output).ins.brand_name = Some(name)

(***************************************************************************)
(* Specification SpecText: clean_text on texts built character by          *)
(* character.  input is the text; pc: "build_text", then "text_done".      *)
(***************************************************************************)
MaxTextLen == 6

TextChars == {"a", " ", "~", "&", ";"}

InitText ==
    /\ pc = "build_text"
    /\ input = <<>>
    /\ output = None
    /\ Idle

AddChar ==
    /\ pc = "build_text"
    /\ Len(input) < MaxTextLen
    /\ \E c \in TextChars : input' = Append(input, c)
    /\ UNCHANGED <<pc, output>>
    /\ IdleUnchanged

\* clean_text, and clean_text again on what it returned
RunClean ==
    /\ pc = "build_text"
    /\ output' = Some([step |-> "clean", once |-> clean_text(input),
                       twice |-> clean_text(clean_text(input))])
    /\ pc' = "text_done"
    /\ UNCHANGED input
    /\ IdleUnchanged

NextText == AddChar \/ RunClean

SpecText == InitText /\ [][NextText]_vars

\* C13: clean_text is idempotent: clean_text(clean_text(x)) = clean_text(x) for
\* every text x.
C13_CleanTextIdempotent ==
    pc = "text_done" => Get(output).twice = Get(output).once

(***************************************************************************)
(* Specification SpecContact: extract_contact_info on pages whose matches  *)
(* are built one by one.  input is [emails, phones], the matches of the    *)
(* two regular expressions in the page's text; pc: "build_emails" or       *)
(* "build_phones" (the list that grows long), then "contact_done".         *)
(***************************************************************************)
MaxEmails == 6
MaxPhones == 4

\* the k-th address of a page, and another spelling of the first
FreshEmail(k) == <<"e", DigitChars[k + 1], "@", "x">>
EmailVariant == <<"E", "1", "@", "x">>

\* the k-th phone match of a page: long enough, too short, or the first again
NextPhones(k) ==
    {[text |-> k, digits |-> 10], [text |-> k, digits |-> 9], [text |-> 1, digits |-> 10]}

\* a site whose k-th contact path (k = 5: only the main page, k = 0: no page)
\* serves the page; the other fetches fail or give pages without matches
ContactSite(k, page) ==
    [paths |-> [j \in 1..4 |->
                   IF j = k THEN ContactPage(200, page.emails, page.phones)
                   ELSE ContactPage(<<404, ConnErr, 200>>[(j % 3) + 1], <<>>, <<>>)],
     home |-> IF k = 5 THEN ContactPage(200, page.emails, page.phones)
              ELSE ContactPage(IF k = 0 THEN ConnErr ELSE 200, <<>>, <<>>)]

InitContact ==
    /\ pc \in {"build_emails", "build_phones"}
    /\ input = [emails |-> <<>>, phones |-> <<>>]
    /\ output = None
    /\ Idle

AddEmail ==
    /\ pc \in {"build_emails", "build_phones"}
    /\ Len(input.emails) < (IF pc = "build_emails" THEN MaxEmails ELSE 1)
    /\ \E e \in {FreshEmail(Len(input.emails) + 1), EmailVariant} :
          input' = [input EXCEPT !.emails = Append(@, e)]
    /\ UNCHANGED <<pc, output>>
    /\ IdleUnchanged

AddPhone ==
    /\ pc \in {"build_emails", "build_phones"}
    /\ Len(input.phones) < (IF pc = "build_phones" THEN MaxPhones ELSE 1)
    /\ \E ph \in NextPhones(Len(input.phones) + 1) :
          input' = [input EXCEPT !.phones = Append(@, ph)]
    /\ UNCHANGED <<pc, output>>
    /\ IdleUnchanged

\* ContentExtractor.extract_contact_info
RunContact ==
    /\ pc \in {"build_emails", "build_phones"}
    /\ \E k \in {0, 2, 5} :
          \E info \in extract_contact_info(ContactSite(k, input)) :
              output' = Some([step |-> "contact", served |-> k, info |-> info])
    /\ pc' = "contact_done"
    /\ UNCHANGED input
    /\ IdleUnchanged

NextContact == AddEmail \/ AddPhone \/ RunContact

SpecContact == InitContact /\ [][NextContact]_vars

Distinct(list) == \A i, j \in 1..Len(list) : i # j => list[i] # list[j]

\* C14: extract_contact_info returns null or a ContactInfo with at least one of
\* emails and phone_numbers non-empty; emails are at most 5 distinct lower-cased
\* addresses and phone_numbers at most 3 distinct numbers, all of them among the
\* matches found on the page that was scanned.
C14_ContactInfoShape ==
    pc = "contact_done" =>
        LET info == Get(output).info
        IN \/ IsNone(info)
           \/ /\ Get(output).served # 0
              /\ Get(info).emails # <<>> \/ Get(info).phone_numbers # <<>>
              /\ Len(Get(info).emails) <= 5
              /\ Distinct(Get(info).emails)
              /\ \A i \in 1..Len(Get(info).emails) :
                    /\ Get(info).emails[i] = Lower(Get(info).emails[i])
                    /\ \E k \in 1..Len(input.emails) : Lower(input.emails[k]) = Get(info).emails[i]
              /\ Len(Get(info).phone_numbers) <= 3
              /\ Distinct(Get(info).phone_numbers)
              /\ \A i \in 1..Len(Get(info).phone_numbers) :
                    \E k \in 1..Len(input.phones) :
                        /\ input.phones[k].text = Get(info).phone_numbers[i]
                        /\ input.phones[k].digits >= 10

\* C14 witness: a page with 6 different addresses, one of them spelled in two
\* ways, gave 5 emails
C14_Witness ==
    /\ pc = "contact_done"
    /\ Cardinality({Lower(input.emails[k]) : k \in 1..Len(input.emails)}) = 6
    /\ EmailVariant \in SeqRange(input.emails)
    /\ ~IsNone(Get(output).info)
    /\ Len(Get(Get(output).info).emails) = 5

(***************************************************************************)
(* Specification SpecConcurrent: two analyze requests whose steps          *)
(* interleave.  Objects live in a heap (insights): a request holds         *)
(* references (reqs[r]) to the scraper it constructed and to the profile   *)
(* scrape_store constructed for it.  pc[r] is the position of request r,   *)
(* body[r] the site it analyzes, response[r] what scrape_store returned.   *)
(***************************************************************************)
Requests == {1, 2}

\* the answers of a site to every fetch of a scrape
Site(verify, rs, doc, feed, hero, policies, faq, social, contact, anchors) ==
    [verify |-> verify, rs |-> rs, doc |-> doc, feed |-> feed, hero |-> hero,
     policies |-> policies, faq |-> faq, social |-> social, contact |-> contact,
     anchors |-> anchors]

PlainDoc == [og |-> Some(<<"A", "c", "m", "e">>), app |-> None, title |-> None, desc |-> None]
BareDoc == [og |-> None, app |-> None, title |-> None, desc |-> None]
NoPolicies ==
    [pv |-> [k \in 1..Len(privacy_paths) |-> PolicyFetch(Always(404), 0)],
     rt |-> [k \in 1..Len(return_paths) |-> PolicyFetch(Always(404), 0)]]
SomePolicies ==
    [pv |-> [k \in 1..Len(privacy_paths) |-> PolicyFetch(Always(200), 2500)],
     rt |-> [k \in 1..Len(return_paths) |-> PolicyFetch(Always(404), 0)]]
FaqSiteWith(page) ==
    [paths |-> [NoFaqPaths EXCEPT ![1] = FaqAnswer(200, page)],
     home |-> FaqAnswer(200, EmptyFaqPage)]
ContactSiteWith(page) == [paths |-> [k \in 1..4 |-> page], home |-> page]

Sites ==
    {Site(200, Always(200), PlainDoc, Feed("list", <<Entry(1, 2, 2)>>),
          <<ProductLink(1, Always(200), 4)>>, SomePolicies,
          FaqSiteWith(FaqPage(1, <<Faq(<<"a", "?">>, <<"y">>)>>)),
          << <<"https://", "instagram.com", "/", "acme">> >>,
          ContactSiteWith(ContactPage(200, << <<"a", "@", "x">> >>, <<>>)),
          <<Anchor({"blog"}, 1, FALSE)>>),
     Site(403, Always(403), BareDoc, Feed("list", <<>>), <<>>, NoPolicies,
          FaqSiteWith(EmptyFaqPage), <<>>, ContactSiteWith(ContactPage(404, <<>>, <<>>)), <<>>),
     Site(200, RateLimitedOnce, BareDoc, Feed("list", <<Entry(7, 0, 1)>>),
          <<ProductLink(1, Always(200), 1), BadProductLink(2)>>, NoPolicies,
          FaqSiteWith(EmptyFaqPage), <<>>, ContactSiteWith(ContactPage(404, <<>>, <<>>)), <<>>),
     Site(404, Always(404), BareDoc, Feed("list", <<>>), <<>>, NoPolicies,
          FaqSiteWith(EmptyFaqPage), <<>>, ContactSiteWith(ContactPage(404, <<>>, <<>>)), <<>>)}

\* what one sub-step of scrape_store (lines 45-66) makes of the profile:
\* [ins, raised]
ScrapeStep(step, ins, site) ==
    LET got == make_request(site.rs, 0)
    IN CASE step = "brand" ->
              [ins |-> extract_brand_info(ins, got, site.doc, BrandNetloc), raised |-> FALSE]
         [] step = "catalog" ->
              [ins |-> extract_product_catalog(ins, got, site.feed), raised |-> FALSE]
         [] step = "hero" ->
              [ins |-> extract_hero_products(ins, got, site.hero).ins,
               raised |-> extract_hero_products(ins, got, site.hero).raised]
         [] step = "policies" ->
              [ins |-> extract_policies(ins, site.policies.pv, site.policies.rt).ins,
               raised |-> FALSE]
         [] step = "faqs" ->
              [ins |-> [ins EXCEPT !.faqs = extract_faqs(site.faq).faqs], raised |-> FALSE]
         [] step = "social" ->
              [ins |-> [ins EXCEPT !.social_handles = extract_social_handles(200, site.social)],
               raised |-> FALSE]
         [] step = "contact" ->
              [ins |-> [ins EXCEPT !.contact_info =
                                      CHOOSE info \in extract_contact_info(site.contact) : TRUE],
               raised |-> FALSE]
         [] step = "links" ->
              [ins |-> extract_important_links(ins, got, site.anchors).ins,
               raised |-> extract_important_links(ins, got, site.anchors).raised]

\* the sub-steps that construct a ContentExtractor, with a session of its own
\* (lines 319, 325, 331)
ExtractorSteps == {"faqs", "social", "contact"}

\* objects of the heap
ScraperObject(sent) == [kind |-> "scraper", sent |-> sent, ins |-> None]
ExtractorObject == [kind |-> "extractor", sent |-> 1, ins |-> None]
ProfileObject(ins) == [kind |-> "profile", sent |-> 0, ins |-> Some(ins)]

\* a constructor call gives an object that did not exist before
NewRef(heap) == Len(heap) + 1

\* a mutant of BrandInsights(website_url=...): one profile object for the process
SharedProfileRef(heap) ==
    IF \E i \in 1..Len(heap) : heap[i].kind = "profile"
    THEN CHOOSE i \in 1..Len(heap) : heap[i].kind = "profile"
    ELSE Len(heap) + 1

\* insights = BrandInsights(website_url=website_url) (line 37): a new object
ProfileRef(heap) == NewRef(heap)

Store(heap, ref, obj) ==
    IF ref > Len(heap) THEN Append(heap, obj) ELSE [heap EXCEPT ![ref] = obj]

NoRefs == [scraper |-> 0, profile |-> 0]

InitConcurrent ==
    /\ pc = [r \in Requests |-> "construct"]
    /\ body \in [Requests -> Sites]
    /\ insights = <<>>
    /\ reqs = [r \in Requests |-> NoRefs]
    /\ error = [r \in Requests |-> None]
    /\ response = [r \in Requests |-> None]
    /\ input = None
    /\ output = None

\* scraper = ShopifyScraper() (api.py line 47), with its session
ConstructScraper(r) ==
    /\ pc[r] = "construct"
    /\ reqs' = [reqs EXCEPT ![r].scraper = NewRef(insights)]
    /\ insights' = Append(insights, ScraperObject(0))
    /\ pc' = [pc EXCEPT ![r] = "verify"]
    /\ UNCHANGED <<body, error, response, input, output>>

\* scrape_store, lines 37-42: the profile is constructed and the site is asked
StartScrape(r) ==
    /\ pc[r] = "verify"
    /\ LET ref == ProfileRef(insights)
           heap == Store(insights, ref, ProfileObject(NewInsights))
       IN /\ reqs' = [reqs EXCEPT ![r].profile = ref]
          /\ insights' = [heap EXCEPT ![reqs[r].scraper].sent = @ + 1]
    /\ IF verify_website_access(body[r].verify)
       THEN pc' = [pc EXCEPT ![r] = "brand"] /\ UNCHANGED error
       ELSE pc' = [pc EXCEPT ![r] = "raised"]
            /\ error' = [error EXCEPT ![r] = Some(NotAccessibleMsg)]
    /\ UNCHANGED <<body, response, input, output>>

NextPosition(step) ==
    LET k == CHOOSE k \in 1..Len(SubSteps) : SubSteps[k] = step
    IN IF k = Len(SubSteps) THEN "returned" ELSE SubSteps[k + 1]

\* one sub-step of request r, on the profile and with the session r refers to
RunSubStep(r) ==
    /\ pc[r] \in SeqRange(SubSteps)
    /\ LET ref == reqs[r].profile
           res == ScrapeStep(pc[r], Get(insights[ref].ins), body[r])
           heap == [insights EXCEPT ![ref].ins = Some(res.ins)]
       IN /\ insights' = IF pc[r] \in ExtractorSteps
                         THEN Append(heap, ExtractorObject)
                         ELSE [heap EXCEPT ![reqs[r].scraper].sent = @ + 1]
          /\ IF res.raised
             THEN pc' = [pc EXCEPT ![r] = "raised"]
                  /\ error' = [error EXCEPT ![r] = Some(UrlJoinMsg)]
             ELSE pc' = [pc EXCEPT ![r] = NextPosition(pc[r])] /\ UNCHANGED error
    /\ UNCHANGED <<body, reqs, response, input, output>>

\* return insights (line 69): the handler gets the profile as it is now
ReturnProfile(r) ==
    /\ pc[r] = "returned"
    /\ response' = [response EXCEPT ![r] = insights[reqs[r].profile].ins]
    /\ pc' = [pc EXCEPT ![r] = "responded"]
    /\ UNCHANGED <<body, insights, reqs, error, input, output>>

NextConcurrent ==
    \E r \in Requests :
        ConstructScraper(r) \/ StartScrape(r) \/ RunSubStep(r) \/ ReturnProfile(r)

SpecConcurrent == InitConcurrent /\ [][NextConcurrent]_vars

RECURSIVE AloneFrom(_, _, _)
\* scrape_store run alone from sub-step k on: [position, ins]
AloneFrom(k, ins, site) ==
    IF k > Len(SubSteps) THEN [position |-> "returned", ins |-> ins]
    ELSE LET res == ScrapeStep(SubSteps[k], ins, site)
         IN IF res.raised THEN [position |-> "raised", ins |-> res.ins]
            ELSE AloneFrom(k + 1, res.ins, site)

\* what scrape_store makes of a site when no other request runs
Alone(site) ==
    IF verify_website_access(site.verify) THEN AloneFrom(1, NewInsights, site)
    ELSE [position |-> "raised", ins |-> NewInsights]

RECURSIVE AloneUpTo(_, _)
\* the profile after the first k sub-steps of a scrape run alone
AloneUpTo(k, site) ==
    IF k = 0 THEN NewInsights ELSE ScrapeStep(SubSteps[k], AloneUpTo(k - 1, site), site).ins

\* the profile of a scrape run alone when it stands at position p
AloneAt(p, site) ==
    IF p \in SeqRange(SubSteps)
    THEN AloneUpTo((CHOOSE k \in 1..Len(SubSteps) : SubSteps[k] = p) - 1, site)
    ELSE Alone(site).ins

\* C16: two analyze requests that run concurrently share no mutable state: each
\* has a scraper and a profile of its own, under every interleaving the profile of
\* a request is the one it has when run alone against the same answers, and no
\* step of one request writes the profile of the other.
C16_RequestsIndependent ==
    /\ [](\A r \in Requests :
             /\ \A q \in Requests \ {r} :
                   /\ reqs[r].scraper # 0 => reqs[r].scraper # reqs[q].scraper
                   /\ reqs[r].profile # 0 => reqs[r].profile # reqs[q].profile
             /\ reqs[r].profile # 0 =>
                   insights[reqs[r].profile].ins = Some(AloneAt(pc[r], body[r]))
             /\ pc[r] = "raised" => Alone(body[r]).position = "raised"
             /\ pc[r] = "responded" =>
                   /\ Alone(body[r]).position = "returned"
                   /\ response[r] = Some(Alone(body[r]).ins))
    /\ [][\A r \in Requests :
             pc'[r] = pc[r] /\ reqs[r].profile # 0 =>
                 insights'[reqs[r].profile] = insights[reqs[r].profile]]_vars

\* C16 witness: two requests for different sites, started one within the other,
\* have both returned, each the profile of its own site
C16_Witness ==
    /\ pc = [r \in Requests |-> "responded"]
    /\ reqs[1].scraper < reqs[2].scraper
    /\ reqs[2].scraper < reqs[1].profile
    /\ reqs[1].profile < reqs[2].profile
    /\ response[1] # response[2]
    /\ Len(insights) > reqs[2].profile + 3

(***************************************************************************)
(* Specification SpecValidate: is_likely_shopify_store on every answer of  *)
(* /products.json and of the main page.  input is [pj, home]; pc:          *)
(* "likely", then "likely_done".                                           *)
(***************************************************************************)
\* what response.json() of /products.json can be
JsonShapes == {"has_products", "no_products", "notjson"}

InitValidate ==
    /\ pc = "likely"
    /\ input \in [pj : [outcome : Outcomes, json : JsonShapes],
                  home : [outcome : Outcomes, indicator : BOOLEAN]]
    /\ output = None
    /\ Idle

\* is_likely_shopify_store
RunLikely ==
    /\ pc = "likely"
    /\ output' = Some([step |-> "likely",
                       result |-> is_likely_shopify_store(input.pj, input.home)])
    /\ pc' = "likely_done"
    /\ UNCHANGED input
    /\ IdleUnchanged

NextValidate == RunLikely

SpecValidate == InitValidate /\ [][NextValidate]_vars

\* /products.json answered, and not with a JSON object that has a 'products' key
NotConfirmed ==
    \/ input.pj.outcome \notin {200, ConnErr}
    \/ input.pj.outcome = 200 /\ input.pj.json # "has_products"

\* C17: is_likely_shopify_store is true when /products.json answers with a JSON
\* object that has a 'products' key; whenever that check does not confirm (another
\* status, a body that is no JSON, JSON without the key) the result is that of the
\* scan of the main page: true exactly when the page was served and holds a
\* platform signature, or when it answered 403.
C17_FallsBackToMainPage ==
    pc = "likely_done" =>
        /\ input.pj.outcome = 200 /\ input.pj.json = "has_products" => Get(output).result
        /\ NotConfirmed =>
              (Get(output).result <=>
                  \/ input.home.outcome = 200 /\ input.home.indicator
                  \/ input.home.outcome = 403)

(***************************************************************************)
(* Specification SpecRequest: one call of _make_request(url), one          *)
(* activation per step.  input holds the outcome of every attempt made so  *)
(* far; output is [retries, ok, waits]: the retries argument of the        *)
(* activation to run next, whether a response was returned, the sleeps.    *)
(* pc: "send", then "request_done".                                        *)
(***************************************************************************)
\* what session.get can answer with
RequestOutcomes == Outcomes \cup {204, 503}

\* a mutant of RetryAllowed: one retry more
RetryOnceMore(retries) == retries <= max_retries
\* retries < self.max_retries
RetryAllowed(retries) == retries < max_retries

InitRequest ==
    /\ pc = "send"
    /\ input = <<>>
    /\ output = Some([retries |-> 0, ok |-> FALSE, waits |-> <<>>])
    /\ Idle

\* one activation of _make_request: the attempt, then return or sleep and recurse
Attempt ==
    /\ pc = "send"
    /\ \E r \in RequestOutcomes :
          LET o == Get(output)
              resend(wait) ==
                  /\ output' = Some([o EXCEPT !.retries = @ + 1,
                                              !.waits = Append(@, wait)])
                  /\ pc' = "send"
              return(result) ==
                  /\ output' = Some([o EXCEPT !.ok = result])
                  /\ pc' = "request_done"
          IN /\ input' = Append(input, r)
             /\ IF r = ConnErr
                THEN IF RetryAllowed(o.retries) THEN resend(1) ELSE return(FALSE)
                ELSE IF r = 200 THEN return(TRUE)
                ELSE IF r = 429 /\ RetryAllowed(o.retries)
                     THEN resend(2 ^ o.retries)
                     ELSE return(FALSE)
    /\ IdleUnchanged

NextRequest == Attempt

SpecRequest == InitRequest /\ [][NextRequest]_vars

\* the call runs: every get answers or times out, every sleep ends
SpecRequestFair == SpecRequest /\ WF_vars(Attempt)

\* the outcome of the latest attempt
LastOutcome == input[Len(input)]

\* the requests sent again after the first one
Resends == IF input = <<>> THEN 0 ELSE Len(input) - 1

\* C20: every call of _make_request terminates; a request is sent again only
\* after a 429 answer or a raised exception, at most 3 times with both kinds
\* counted together; the call returns the response at the first 200, returns
\* nothing at once on any other status, and returns nothing when the retries
\* are used up.  The outcome is that of make_request on the same answers.
C20_MakeRequestTerminates ==
    /\ <>(pc = "request_done")
    /\ [](/\ Resends <= 3
          /\ \A i \in 1..Resends : input[i] \in {429, ConnErr}
          /\ Get(output).retries = IF pc = "send" THEN Len(input) ELSE Resends
          /\ pc = "send" /\ input # <<>> => LastOutcome \in {429, ConnErr} /\ Len(input) <= 3
          /\ pc = "request_done" =>
                /\ input # <<>>
                /\ Get(output).ok <=> LastOutcome = 200
                /\ LastOutcome \in {429, ConnErr} => Len(input) = 3 + 1
                /\ LET whole == make_request(input \o Always(200), 0)
                   IN /\ whole.ok = Get(output).ok
                      /\ whole.sent = Len(input)
                      /\ whole.waits = Get(output).waits)

\* a call that ends without a result after 429 answers and exceptions, mixed
C20_Witness ==
    /\ pc = "request_done"
    /\ Resends = 3
    /\ \E i, j \in 1..3 : input[i] = 429 /\ input[j] = ConnErr
    /\ LastOutcome \in {429, ConnErr}
    /\ ~Get(output).ok

\* C21: in _make_request the wait before a retry doubles from each retry to the
\* next, after a 429 answer and after a raised exception alike: every sleep of
\* a call is twice the sleep before it.
C21_WaitsDouble ==
    LET waits == Get(output).waits
    IN \A i \in 2..Len(waits) : waits[i] = 2 * waits[i - 1]

(***************************************************************************)
(* Claims on the attempts of the hero-products sub-step, under             *)
(* SpecProducts.                                                           *)
(***************************************************************************)
\* the anchors of the main page that are product links, in document order
ProductLinksOf(links) == SelectSeq(links, LAMBDA l : l.product)

\* C22: one hero-products sub-step attempts at most 10 product-page fetches,
\* failed fetches counted: the fetches made are those of the first 10 product
\* links of the main page in document order, and of no other link.
C22_AtMostTenAttempts ==
    Ran("hero") /\ make_request(Get(output).rs, 0).ok /\ ~Get(output).raised =>
        /\ Get(output).fetches <= 10
        /\ Get(output).fetches = Min(Len(ProductLinksOf(input)), 10)

(***************************************************************************)
(* Claims on the order of the scrape, under Spec.                          *)
(***************************************************************************)
\* the order the scrape is said to run in, 'complete' last
ScrapeOrder ==
    <<"verify", "brand", "catalog", "hero", "policies", "faqs", "social", "contact", "links",
      "returned">>

OrderIndex(p) == CHOOSE k \in 1..Len(ScrapeOrder) : ScrapeOrder[k] = p

Scraping == pc \in SeqRange(ScrapeOrder)

\* C23: a scrape that passes access verification runs brand-info, catalog,
\* hero-products, policies, faqs, social, contact, important-links one after
\* another in that order, each started only after the one before it has
\* finished, and returns the profile only after important-links; a scrape that
\* fails access verification raises and runs no sub-step.
C23_SubStepsInOrder ==
    /\ [](/\ Scraping /\ pc # "verify" =>
                /\ LastStep = ScrapeOrder[OrderIndex(pc) - 1]
                /\ \A k \in OrderIndex(pc)..(Len(ScrapeOrder) - 1) : reqs[ScrapeOrder[k]] = 0
          /\ pc = "raised" /\ LastStep = "verify" =>
                \A k \in 2..(Len(ScrapeOrder) - 1) : reqs[ScrapeOrder[k]] = 0)
    /\ [][/\ Scraping /\ pc # "returned" /\ pc' # pc =>
                /\ pc' \in {ScrapeOrder[OrderIndex(pc) + 1], "raised"}
                /\ LastStep' = pc
          /\ pc' = "returned" /\ pc' # pc => pc = "links"
          /\ pc = "verify" /\ pc' # pc =>
                IF Get(input').outcome \in {200, 403} THEN pc' = "brand" ELSE pc' = "raised"
          /\ pc = "raised" => pc' \in {"raised", "responded"}]_vars

\* C23 witness: a scrape returned the profile with every sub-step run
C23_Witness ==
    /\ pc = "returned"
    /\ LastStep = "links"
    /\ reqs["verify"] = 1
    /\ \A k \in 2..(Len(ScrapeOrder) - 1) : reqs[ScrapeOrder[k]] >= 1

(***************************************************************************)
(* Claims on the candidate paths of extract_faqs, under SpecFaq.           *)
(***************************************************************************)
\* how the five candidate paths of the run answered, in the order of faq_paths
FaqOutcomes == [j \in 1..5 |-> FaqSite(Get(output).served, 1, input).paths[j].outcome]

\* the candidate paths up to the first one fetched with status 200, all five
\* when none was
UpToFirstFetched ==
    LET ok == {j \in 1..5 : FaqOutcomes[j] = 200}
    IN IF ok = {} THEN 5 ELSE CHOOSE j \in ok : \A i \in ok : j <= i

\* C24: extract_faqs requests the candidate paths in the order of faq_paths and
\* requests no later candidate path once one candidate page has been fetched
\* with status 200: the paths requested are exactly those up to the first
\* fetched page.
C24_StopsAtFirstFetchedPage ==
    pc = "faq_done" => Get(output).asked = [j \in 1..UpToFirstFetched |-> j]

(***************************************************************************)
(* Specification SpecParse: _parse_faq_page on pages in which several of   *)
(* the five methods find candidates.  input is the page, built candidate   *)
(* by candidate; pc: "build_page", then "parse_done".                      *)
(***************************************************************************)
MaxCandidates == 3

\* the candidates a method can read, cleaned: a question with a long answer, the
\* same question spelled differently with a short answer, a text without a
\* question mark, a question whose answer is empty
PageCandidates ==
    {Faq(<<"a", "?">>, Chars(11)),
     Faq(<<"A", "?">>, Chars(6)),
     Faq(<<"b">>, Chars(6)),
     Faq(<<"c", "?">>, <<>>)}

CandidateCount(page) == Len(page[1]) + Len(page[2]) + Len(page[3]) + Len(page[4]) + Len(page[5])

InitParse ==
    /\ pc = "build_page"
    /\ input = EmptyFaqPage
    /\ output = None
    /\ Idle

AddCandidate ==
    /\ pc = "build_page"
    /\ CandidateCount(input) < MaxCandidates
    /\ \E m \in 1..5, c \in PageCandidates : input' = [input EXCEPT ![m] = Append(@, c)]
    /\ UNCHANGED <<pc, output>>
    /\ IdleUnchanged

\* ContentExtractor._parse_faq_page: handed is the list deduplication starts from
RunParse ==
    /\ pc = "build_page"
    /\ output' = Some([step |-> "parse", handed |-> Cascade(input, 1, <<>>),
                       faqs |-> parse_faq_page(input)])
    /\ pc' = "parse_done"
    /\ UNCHANGED input
    /\ IdleUnchanged

NextParse == AddCandidate \/ RunParse

SpecParse == InitParse /\ [][NextParse]_vars

\* the methods that produce at least one pair on the page
Productive == {m \in 1..5 : \E i \in 1..Len(input[m]) : FaqAccepts(m, input[m][i])}

\* C25: the five methods of _parse_faq_page are tried in order and a method runs
\* only if the methods before it produced no pair: the pairs handed to
\* deduplication are those of the lowest-numbered method that produced any, none
\* of them from another method, and the result is empty only if all five methods
\* produced none.
C25_FirstProductiveMethodOnly ==
    pc = "parse_done" =>
        LET handed == Get(output).handed
        IN IF Productive = {}
           THEN handed = <<>> /\ Get(output).faqs = <<>>
           ELSE LET m == CHOOSE m \in Productive : \A k \in Productive : m <= k
                IN /\ handed = SelectSeq(input[m], LAMBDA c : FaqAccepts(m, c))
                   /\ Get(output).faqs # <<>>
                   /\ \A i \in 1..Len(Get(output).faqs) :
                         \E j \in 1..Len(input[m]) : Get(output).faqs[i] = input[m][j]

\* C25 witness: an earlier method found candidates but no pair, and two later
\* methods both produce pairs
C25_Witness ==
    /\ pc = "parse_done"
    /\ \E k, m, n \in 1..5 :
          /\ k < m /\ m < n
          /\ input[k] # <<>> /\ k \notin Productive
          /\ m \in Productive /\ n \in Productive
          /\ Get(output).handed = <<input[m][1]>>

(***************************************************************************)
(* Specification SpecContactPaths: extract_contact_info on sites whose     *)
(* four contact paths answer in every way.  input is the list of the       *)
(* answers of the contact paths, in the order of contact_paths; pc:        *)
(* "build_paths", then "paths_done".                                       *)
(***************************************************************************)
\* what a contact path or the main page can answer: not found, an exception, a
\* page without matches, with an address, with a phone match of too few digits,
\* with a phone number
ContactAnswers ==
    {ContactPage(404, <<>>, <<>>),
     ContactPage(ConnErr, <<>>, <<>>),
     ContactPage(200, <<>>, <<>>),
     ContactPage(200, <<FreshEmail(1)>>, <<>>),
     ContactPage(200, <<>>, <<[text |-> 1, digits |-> 9]>>),
     ContactPage(200, <<>>, <<[text |-> 2, digits |-> 10]>>)}

InitContactPaths ==
    /\ pc = "build_paths"
    /\ input = <<>>
    /\ output = None
    /\ Idle

\* contact_paths has four entries (line 318)
AddContactPath ==
    /\ pc = "build_paths"
    /\ Len(input) < 4
    /\ \E a \in ContactAnswers : input' = Append(input, a)
    /\ UNCHANGED <<pc, output>>
    /\ IdleUnchanged

\* ContentExtractor.extract_contact_info
RunContactPaths ==
    /\ pc = "build_paths"
    /\ Len(input) = 4
    /\ \E home \in ContactAnswers :
          LET site == [paths |-> input, home |-> home]
          IN \E info \in extract_contact_info(site) :
                output' = Some([step |-> "contact", home |-> home, info |-> info,
                                asked |-> contact_requests(site).asked,
                                main |-> contact_requests(site).home])
    /\ pc' = "paths_done"
    /\ UNCHANGED input
    /\ IdleUnchanged

NextContactPaths == AddContactPath \/ RunContactPaths

SpecContactPaths == InitContactPaths /\ [][NextContactPaths]_vars

\* a page that was served and holds an address or a phone number
Yields(a) ==
    /\ a.outcome = 200
    /\ a.emails # <<>> \/ \E i \in 1..Len(a.phones) : a.phones[i].digits >= 10

YieldingPaths == {j \in 1..Len(input) : Yields(input[j])}

\* C26: extract_contact_info requests the contact paths in the order of
\* contact_paths and no further one after the first page that gave an address or
\* a phone number; a path that raises or answers another status than 200 is
\* passed over; the main page is requested exactly when no contact page gave
\* anything, and what is returned comes from the page the search ended on.
C26_StopsAtFirstYieldingPage ==
    pc = "paths_done" =>
        /\ Get(output).asked =
              IF YieldingPaths = {} THEN 4
              ELSE CHOOSE j \in YieldingPaths : \A i \in YieldingPaths : j <= i
        /\ Get(output).main <=> YieldingPaths = {}
        /\ IsNone(Get(output).info) <=>
              ~Yields(IF YieldingPaths = {} THEN Get(output).home
                      ELSE input[Get(output).asked])

\* C26 witness: the search passed an exception, a page without matches and a
\* page whose phone match has too few digits, ended on a later contact page and
\* did not request the main page
C26_Witness ==
    /\ pc = "paths_done"
    /\ \E i, j, k \in 1..3 :
          /\ input[i].outcome = ConnErr
          /\ input[j].outcome = 200 /\ input[j].phones = <<>>
          /\ input[k].outcome = 200 /\ input[k].phones # <<>>
    /\ Get(output).asked = 4
    /\ ~Get(output).main
    /\ ~IsNone(Get(output).info)

(***************************************************************************)
(* Specification SpecPolicies: _extract_policies on sites whose seven      *)
(* policy paths answer in every way.  input is the list of the fetches,    *)
(* the privacy paths first and then the return paths; pc:                  *)
(* "build_policies", then "policies_done".                                 *)
(***************************************************************************)
\* what a policy path can answer: not found, exceptions only, a page whose
\* cleaned text is longer than the limit, a short page served after a 429
PolicyAnswers ==
    {PolicyFetch(Always(404), 0),
     PolicyFetch(Always(ConnErr), 0),
     PolicyFetch(Always(200), PolicyContentLimit + 1),
     PolicyFetch(RateLimitedOnce, 5)}

PolicyPathCount == Len(privacy_paths) + Len(return_paths)

\* the answers to the privacy paths and to the return paths
PrivacyFetches(fetches) == SubSeq(fetches, 1, Len(privacy_paths))
ReturnFetches(fetches) == SubSeq(fetches, Len(privacy_paths) + 1, PolicyPathCount)

InitPolicies ==
    /\ pc = "build_policies"
    /\ input = <<>>
    /\ output = None
    /\ Idle

AddPolicyFetch ==
    /\ pc = "build_policies"
    /\ Len(input) < PolicyPathCount
    /\ \E a \in PolicyAnswers : input' = Append(input, a)
    /\ UNCHANGED <<pc, output>>
    /\ IdleUnchanged

\* ShopifyScraper._extract_policies on a fresh profile; asked: how many paths of
\* each kind were requested
RunPolicies ==
    /\ pc = "build_policies"
    /\ Len(input) = PolicyPathCount
    /\ output' = Some([step |-> "policies",
                       ins |-> extract_policies(NewInsights, PrivacyFetches(input),
                                                ReturnFetches(input)).ins,
                       asked |-> [privacy |-> PolicyLoop(privacy_paths, PrivacyFetches(input), 1, 0).asked,
                                  return |-> PolicyLoop(return_paths, ReturnFetches(input), 1, 0).asked]])
    /\ pc' = "policies_done"
    /\ UNCHANGED input
    /\ IdleUnchanged

NextPolicies == AddPolicyFetch \/ RunPolicies

SpecPolicies == InitPolicies /\ [][NextPolicies]_vars

\* the paths of a kind whose fetch returned a page
ReachablePaths(fetches) == {k \in 1..Len(fetches) : make_request(fetches[k].rs, 0).ok}

\* what C27 says of one kind: paths and fetches of the kind, the URL and the
\* content recorded, the number of paths requested
PolicyOfKind(paths, fetches, url, content, asked) ==
    /\ IsNone(url) <=> IsNone(content)
    /\ IF ReachablePaths(fetches) = {}
       THEN IsNone(url) /\ asked = Len(paths)
       ELSE LET first == CHOOSE k \in ReachablePaths(fetches) :
                            \A j \in ReachablePaths(fetches) : k <= j
            IN /\ url = Some(paths[first])
               /\ asked = first
               /\ ~IsNone(content)
               /\ Get(content) <= 2000
               /\ Get(content) = Min(fetches[first].len, 2000)

\* C27: for privacy and for returns, each on its own: the policy URL recorded
\* is that of the first path of the kind whose fetch returned a page and no
\* later path of the kind is requested; the URL is set exactly when the content
\* is; the content has at most 2000 characters; a kind none of whose paths is
\* reachable leaves both fields absent, whatever the other kind found.
C27_FirstReachablePolicy ==
    pc = "policies_done" =>
        LET ins == Get(output).ins
        IN /\ PolicyOfKind(privacy_paths, PrivacyFetches(input), ins.privacy_policy_url,
                           ins.privacy_policy_content, Get(output).asked.privacy)
           /\ PolicyOfKind(return_paths, ReturnFetches(input), ins.return_refund_policy_url,
                           ins.return_refund_policy_content, Get(output).asked.return)

\* C27 witness: no privacy path is reachable; of the return paths the second and
\* the fourth are, the second with a page longer than the limit
C27_Witness ==
    /\ pc = "policies_done"
    /\ ReachablePaths(PrivacyFetches(input)) = {}
    /\ ReachablePaths(ReturnFetches(input)) = {2, 4}
    /\ ReturnFetches(input)[2].len > 2000
    /\ IsNone(Get(output).ins.privacy_policy_url)
    /\ Get(output).ins.return_refund_policy_url = Some(return_paths[2])
    /\ Get(output).ins.return_refund_policy_content = Some(2000)

(***************************************************************************)
(* Claims on the sessions of a scrape, under SpecConcurrent.  Every        *)
(* scraper and every extractor object holds the session its constructor    *)
(* created; sent counts the requests issued through it.                    *)
(***************************************************************************)
\* C28: within one scrape every outbound request is issued through one and the
\* same session, the one created with the scraper of that scrape: no other
\* object of the heap has sent a request.
C28_OneSessionPerScrape ==
    \A i \in 1..Len(insights) : insights[i].sent > 0 => insights[i].kind = "scraper"

(***************************************************************************)
(* Claims on the platforms that are never recorded, under SpecSocial.      *)
(***************************************************************************)
\* C29: extract_social_handles returns no entry for linkedin, pinterest or
\* snapchat, whatever the anchors of the main page; every entry it returns has a
\* handle that is not null and is none of 'www', 'web', 'home'.
C29_NoHandleNoEntry ==
    pc = "social_done" =>
        \A k \in 1..Len(Get(output).handles) :
            /\ Get(output).handles[k].platform \notin {"linkedin", "pinterest", "snapchat"}
            /\ ~IsNone(Get(output).handles[k].handle)
            /\ Get(Get(output).handles[k].handle) \notin {<<"www">>, <<"web">>, <<"home">>}

\* C29 witness: the main page links to pinterest, to snapchat and to a youtube
\* address whose handle would be 'home', and nothing was recorded
C29_Witness ==
    /\ Scanned
    /\ \E i, j, k \in 1..Len(input) :
          /\ MatchesPlatform(LowerHref(input[i]), "pinterest")
          /\ MatchesPlatform(LowerHref(input[j]), "snapchat")
          /\ extract_handle_from_url(LowerHref(input[k]), "youtube") = Some(<<"home">>)
    /\ Get(output).handles = <<>>

(***************************************************************************)
(* Claims on the answer to an exception of the scrape, under Spec.         *)
(***************************************************************************)
\* the message, lower-cased, holds one of the two phrases
MentionsPhrase(msg) ==
    \E phrase \in {<<"n", "o", "t", " ", "a", "c", "c", "e", "s", "s", "i", "b", "l", "e">>,
                   <<"n", "o", "t", " ", "f", "o", "u", "n", "d">>} :
        \E i \in 1..Len(msg) :
            /\ i + Len(phrase) - 1 <= Len(msg)
            /\ \A k \in 1..Len(phrase) : LowerChar(msg[i + k - 1]) = phrase[k]

\* C30: an exception that escapes scrape_store is answered with 401 exactly
\* when its message holds 'not accessible' or 'not found' in any case,
\* whichever step raised it, and with 500 otherwise: an exception of a sub-step
\* that ran after access verification succeeded is answered with 401 when its
\* message holds one of the phrases.
C30_StatusFromMessage ==
    pc = "responded" /\ ~IsNone(error) =>
        /\ Get(response).status = IF MentionsPhrase(Get(error)) THEN 401 ELSE 500
        /\ ~Get(response).success

\* C30 witness: access verification succeeded, a later sub-step raised an
\* exception whose message holds 'not found', and the answer is 401
C30_Witness ==
    /\ pc = "responded"
    /\ ~IsNone(error)
    /\ LastStep \in {"hero", "links"}
    /\ reqs["brand"] >= 1
    /\ MentionsPhrase(Get(error))
    /\ Get(response).status = 401

====
